---- MODULE Spec2Model ----
(***************************************************************************)
(* Verification model of the ergo core:                                    *)
(*   - the supervisor (crates/supervisor/src/lib.rs), its capturing        *)
(*     session (capture.rs) and replay (replay.rs), driven through the     *)
(*     fault-injecting runtime handle of crates/adapter/src/lib.rs;        *)
(*   - the graph validator (crates/runtime/src/runtime/validate.rs);       *)
(*   - cluster expansion and signature inference                           *)
(*     (crates/runtime/src/cluster.rs);                                    *)
(*   - the four primitive registries                                       *)
(*     (crates/runtime/src/{source,compute,trigger,action}/registry.rs);   *)
(*   - the executor (crates/runtime/src/runtime/execute.rs) and run        *)
(*     (crates/runtime/src/runtime/mod.rs) over the core primitives.       *)
(* Durations and event times are whole seconds in 0..DurationMax, where    *)
(* DurationMax stands for Duration::MAX (the value saturating_add stops    *)
(* at).  Option<T> is a sequence of length at most one.                    *)
(***************************************************************************)
EXTENDS Integers, Sequences, FiniteSets, TLC

VARIABLES supervisor, bundle, phase, replayed, handle, runs, graph, result,
          root, loader, registries, ctx, passes

vars == <<supervisor, bundle, phase, replayed, handle, runs, graph, result,
         root, loader, registries, ctx, passes>>

-----------------------------------------------------------------------------
(* Bounds of the model *)

DurationMax == 3

MaxEvents == 3

MaxRetries == 2

MaxSched == 2

MaxNodes == 2

MaxEdges == 2
\* boundary output ports of a graph handed to infer_signature
MaxOutputs == 2
\* entries the four registries hold together
MaxRegistered == 2
\* passes over one graph
MaxPasses == 2
\* the numbers a source is set to produce are 1 .. MaxValue
MaxValue == 2

-----------------------------------------------------------------------------
(* Option<T> *)

None == <<>>

Some(x) == <<x>>

is_some(o) == o # <<>>

unwrap(o) == o[1]

Last(s) == s[Len(s)]

Max(a, b) == IF a > b THEN a ELSE b

-----------------------------------------------------------------------------
(* crates/adapter/src/lib.rs *)

ErrKind == {"NetworkTimeout", "AdapterUnavailable", "ValidationFailed",
            "RuntimeError", "DeadlineExceeded", "Cancelled"}

Completed == <<"Completed">>

TimedOut == <<"TimedOut">>

Aborted == <<"Aborted">>

Failed(err) == <<"Failed", err>>

RunTermination == {Completed, TimedOut, Aborted} \cup {Failed(k) : k \in ErrKind}

EventId == {"e1", "e2"}

ExternalEventKind == {"Tick"}

\* Duration::saturating_add, Duration::saturating_sub
duration_saturating_add(a, b) == IF a + b > DurationMax THEN DurationMax ELSE a + b

duration_saturating_sub(a, b) == IF a < b THEN 0 ELSE a - b

\* a subtraction that leaves the counter as it is
usize_saturating_sub_kept(a, b) == a

\* usize::saturating_sub
usize_saturating_sub(a, b) == IF a < b THEN 0 ELSE a - b

\* EventTime::saturating_add
saturating_add(t, d) == duration_saturating_add(t, d)

\* ExternalEvent::with_payload / mechanical_at: the context is always empty
ExternalEvent(id, kind, at) == [event_id |-> id, kind |-> kind, at |-> at]

\* FaultRuntimeHandle::with_schedule; the schedule is the state behind the Arc
with_schedule(default, schedule) == [schedule |-> schedule, default |-> default]

\* FaultRuntimeHandle::new
FaultRuntimeHandle_new(default) == with_schedule(default, [i \in EventId |-> <<>>])

\* FaultRuntimeHandle::push_outcomes
push_outcomes(rt, event_id, outcomes) ==
    [rt EXCEPT !.schedule[event_id] = outcomes]

\* <FaultRuntimeHandle as RuntimeInvoker>::run: the termination and the handle
\* state left behind
FaultRuntimeHandle_run(rt, event_id, deadline) ==
    IF is_some(deadline) /\ unwrap(deadline) = 0
    THEN [termination |-> Aborted, runtime |-> rt]
    ELSE IF rt.schedule[event_id] # <<>>
         THEN [termination |-> Head(rt.schedule[event_id]),
               runtime |-> [rt EXCEPT !.schedule[event_id] = Tail(@)]]
         ELSE [termination |-> rt.default, runtime |-> rt]

-----------------------------------------------------------------------------
(* crates/adapter/src/capture.rs *)

\* ExternalEventRecord::from_event (payload is empty, its hash a constant)
from_event(event) ==
    [event_id |-> event.event_id, event_time |-> event.at, kind |-> event.kind]

rehydrate_at_zero(record) == ExternalEvent(record.event_id, record.kind, 0)

\* ExternalEventRecord::rehydrate
rehydrate(record) == ExternalEvent(record.event_id, record.kind, record.event_time)

-----------------------------------------------------------------------------
(* crates/supervisor/src/lib.rs *)

Constraints(mif, mpw, rw, dl, mr) ==
    [max_in_flight |-> mif, max_per_window |-> mpw, rate_window |-> rw,
     deadline |-> dl, max_retries |-> mr]

\* Supervisor::with_runtime; episodes is the history of what each on_event did
\* (the `now` and in_flight it read, the guard that deferred it, and the
\* terminations the runtime returned to it)
with_runtime(constraints, runtime) ==
    [constraints |-> constraints,
     runtime |-> runtime,
     next_episode_id |-> 0,
     in_flight |-> 0,
     recent_invocations |-> <<>>,
     clock |-> 0,
     decision_log |-> <<>>,
     episodes |-> <<>>]

advance_to_unconditional(now, at) == at

\* DeterministicClock::advance_to
advance_to(now, at) == IF at > now THEN at ELSE now

is_concurrency_saturated_strict(constraints, in_flight) ==
    is_some(constraints.max_in_flight) /\ in_flight > unwrap(constraints.max_in_flight)

\* Supervisor::is_concurrency_saturated
is_concurrency_saturated(constraints, in_flight) ==
    is_some(constraints.max_in_flight) /\ in_flight >= unwrap(constraints.max_in_flight)

RECURSIVE evict(_, _, _)
\* the eviction loop of Supervisor::rate_limit_delay
evict(queue, now, window) ==
    IF queue # <<>> /\ duration_saturating_sub(now, Head(queue)) >= window
    THEN evict(Tail(queue), now, window)
    ELSE queue

rate_limit_delay_elapsed(constraints, recent, now) ==
    IF ~is_some(constraints.max_per_window) \/ ~is_some(constraints.rate_window)
    THEN [delay |-> None, recent_invocations |-> recent]
    ELSE LET window == unwrap(constraints.rate_window)
             q == evict(recent, now, window)
         IN  IF Len(q) >= unwrap(constraints.max_per_window) /\ q # <<>>
             THEN [delay |-> Some(duration_saturating_sub(now, Head(q))),
                   recent_invocations |-> q]
             ELSE [delay |-> None, recent_invocations |-> q]

\* Supervisor::rate_limit_delay: the delay and the queue after eviction
rate_limit_delay(constraints, recent, now) ==
    IF ~is_some(constraints.max_per_window) \/ ~is_some(constraints.rate_window)
    THEN [delay |-> None, recent_invocations |-> recent]
    ELSE LET window == unwrap(constraints.rate_window)
             q == evict(recent, now, window)
         IN  IF Len(q) >= unwrap(constraints.max_per_window) /\ q # <<>>
             THEN [delay |-> Some(duration_saturating_sub(
                                    window, duration_saturating_sub(now, Head(q)))),
                   recent_invocations |-> q]
             ELSE [delay |-> None, recent_invocations |-> q]

should_retry_any_failure(termination) ==
    termination = TimedOut \/ termination[1] = "Failed"

\* Supervisor::should_retry
should_retry(termination) ==
    \/ termination \in {Failed("NetworkTimeout"), Failed("AdapterUnavailable"),
                        Failed("RuntimeError")}
    \/ termination = TimedOut

RECURSIVE retry_loop(_, _, _, _, _, _)
\* the while loop of Supervisor::invoke_with_retries
retry_loop(constraints, event_id, runtime, attempts, termination, calls) ==
    IF attempts < constraints.max_retries /\ should_retry(termination)
    THEN LET r == FaultRuntimeHandle_run(runtime, event_id, constraints.deadline)
         IN  retry_loop(constraints, event_id, r.runtime, attempts + 1,
                        r.termination, Append(calls, r.termination))
    ELSE [termination |-> termination, retry_count |-> attempts,
          runtime |-> runtime, calls |-> calls]

\* invoke_with_retries reporting the number of calls as the retry count
invoke_with_retries_counting_calls(constraints, runtime, event_id) ==
    LET r == FaultRuntimeHandle_run(runtime, event_id, constraints.deadline)
        done == retry_loop(constraints, event_id, r.runtime, 0, r.termination,
                           <<r.termination>>)
    IN  [done EXCEPT !.retry_count = Len(done.calls)]

\* Supervisor::invoke_with_retries
invoke_with_retries(constraints, runtime, event_id) ==
    LET r == FaultRuntimeHandle_run(runtime, event_id, constraints.deadline)
    IN  retry_loop(constraints, event_id, r.runtime, 0, r.termination,
                   <<r.termination>>)

\* Supervisor::log_decision builds the DecisionLogEntry
log_decision(constraints, event, decision, schedule_at, episode_id, termination, retry_count) ==
    [event_id |-> event.event_id,
     event |-> event,
     decision |-> decision,
     schedule_at |-> schedule_at,
     episode_id |-> episode_id,
     deadline |-> constraints.deadline,
     termination |-> termination,
     retry_count |-> retry_count]

\* impl From<&DecisionLogEntry> for EpisodeInvocationRecord
EpisodeInvocationRecord_from(entry) ==
    [event_id |-> entry.event_id,
     decision |-> entry.decision,
     schedule_at |-> entry.schedule_at,
     episode_id |-> entry.episode_id,
     deadline |-> entry.deadline,
     termination |-> entry.termination,
     retry_count |-> entry.retry_count]

next_episode_id_stuck(counter) == IF counter = 0 THEN 1 ELSE counter

\* Supervisor::next_episode_id: the counter after handing out its value (u64;
\* saturation at u64::MAX is out of reach of any run)
next_episode_id(counter) == counter + 1

\* Supervisor::on_event, with the MemoryDecisionLog::log it ends in
on_event(sup, event) ==
    LET c == sup.constraints
        now == advance_to(sup.clock, event.at)
        episode_id == sup.next_episode_id
        s1 == [sup EXCEPT !.clock = now,
                          !.next_episode_id = next_episode_id(sup.next_episode_id)]
    IN  IF is_concurrency_saturated(c, s1.in_flight)
        THEN [s1 EXCEPT
                !.decision_log = Append(@, log_decision(c, event, "Defer", Some(now),
                                                        episode_id, Aborted, 0)),
                !.episodes = Append(@, [now |-> now, in_flight |-> s1.in_flight,
                                        calls |-> <<>>, guard |-> "concurrency"])]
        ELSE LET rl == rate_limit_delay(c, s1.recent_invocations, now)
             IN  IF is_some(rl.delay)
                 THEN [s1 EXCEPT
                         !.recent_invocations = rl.recent_invocations,
                         !.decision_log =
                             Append(@, log_decision(c, event, "Defer",
                                        Some(saturating_add(now, unwrap(rl.delay))),
                                        episode_id, Aborted, 0)),
                         !.episodes = Append(@, [now |-> now, in_flight |-> s1.in_flight,
                                                 calls |-> <<>>, guard |-> "rate"])]
                 ELSE LET in_flight1 == s1.in_flight + 1
                          recent1 ==
                              IF is_some(c.max_per_window) /\ is_some(c.rate_window)
                              THEN Append(rl.recent_invocations, now)
                              ELSE rl.recent_invocations
                          r == invoke_with_retries(c, s1.runtime, event.event_id)
                      IN  [s1 EXCEPT
                             !.in_flight = usize_saturating_sub(in_flight1, 1),
                             !.recent_invocations = recent1,
                             !.runtime = r.runtime,
                             !.decision_log =
                                 Append(@, log_decision(c, event, "Invoke", None,
                                            episode_id, r.termination, r.retry_count)),
                             !.episodes = Append(@, [now |-> now, in_flight |-> s1.in_flight,
                                                     calls |-> r.calls, guard |-> "none"])]

-----------------------------------------------------------------------------
(* crates/supervisor/src/replay.rs *)

RECURSIVE records(_)
\* MemoryDecisionLog::records
records(entries) ==
    IF entries = <<>> THEN <<>>
    ELSE <<EpisodeInvocationRecord_from(Head(entries))>> \o records(Tail(entries))

RECURSIVE feed(_, _)
\* the for loop of replay
feed(sup, event_records) ==
    IF event_records = <<>> THEN sup
    ELSE feed(on_event(sup, rehydrate(Head(event_records))), Tail(event_records))

\* replay: the records returned, and the state the shared runtime handle is left in
replay(b, runtime) ==
    LET sup == feed(with_runtime(b.config, runtime), b.events)
    IN  [records |-> records(sup.decision_log), runtime |-> sup.runtime]

-----------------------------------------------------------------------------
(* crates/supervisor/src/capture.rs *)

\* CapturingSession::new
CapturingSession_new(constraints, runtime) ==
    [supervisor |-> with_runtime(constraints, runtime),
     bundle |-> [config |-> constraints, events |-> <<>>, decisions |-> <<>>]]

\* CapturingDecisionLog::log: the record pushed to the shared bundle
CapturingDecisionLog_log(b, entry) ==
    [b EXCEPT !.decisions = Append(@, EpisodeInvocationRecord_from(entry))]

\* CapturingSession::on_event
CapturingSession_on_event(event) ==
    /\ phase = "capturing"
    /\ Len(bundle.events) < MaxEvents
    /\ supervisor' = on_event(supervisor, event)
    /\ bundle' = CapturingDecisionLog_log(
                    [bundle EXCEPT !.events = Append(@, from_event(event))],
                    Last(supervisor'.decision_log))
    /\ UNCHANGED <<phase, replayed, handle, runs, graph, result, root, loader, registries, ctx, passes>>

\* CapturingSession::into_bundle
into_bundle ==
    /\ phase = "capturing"
    /\ phase' = "bundled"
    /\ UNCHANGED <<supervisor, bundle, replayed, handle, runs, graph, result, root, loader, registries, ctx, passes>>

RECURSIVE calls_of(_, _, _)
\* the terminations the capture-time runtime returned for event id, in call order
calls_of(id, entries, episodes) ==
    IF entries = <<>> THEN <<>>
    ELSE (IF Head(entries).event_id = id THEN Head(episodes).calls ELSE <<>>)
         \o calls_of(id, Tail(entries), Tail(episodes))

\* replay(B, R') for a runtime R' that answers each event's successive
\* invocations as the capture-time runtime did
ReplayCapture ==
    /\ phase = "bundled"
    /\ replayed = None
    /\ replayed' = Some(replay(bundle,
                        with_schedule(supervisor.runtime.default,
                            [id \in EventId |->
                                calls_of(id, supervisor.decision_log,
                                         supervisor.episodes)])).records)
    /\ UNCHANGED <<supervisor, bundle, phase, handle, runs, graph, result, root, loader, registries, ctx, passes>>

\* extract(&bundle, runtime.clone()) of tests/replay_harness.rs: the clone
\* shares the schedule with the handle it was cloned from
Replay ==
    /\ phase = "bundled"
    /\ Len(runs) < 2
    /\ LET r == replay(bundle, handle)
       IN  /\ runs' = Append(runs, r.records)
           /\ handle' = r.runtime
    /\ UNCHANGED <<supervisor, bundle, phase, replayed, graph, result, root, loader, registries, ctx, passes>>

-----------------------------------------------------------------------------
(* crates/runtime/src/cluster.rs, crates/runtime/src/runtime/types.rs *)

PrimitiveKind == {"Source", "Compute", "Trigger", "Action"}

ValueType == {"Number", "Series", "Bool", "Event", "String"}

InputMetadata(name, value_type, required) ==
    [name |-> name, value_type |-> value_type, required |-> required]

\* PrimitiveMetadata; outputs is the HashMap<String, OutputMetadata>
PrimitiveMetadata(kind, inputs, outputs) ==
    [kind |-> kind, inputs |-> inputs, outputs |-> outputs]

\* ExpandedEndpoint
NodePort(node_id, port_name) ==
    [tag |-> "NodePort", node_id |-> node_id, port_name |-> port_name]

ExternalInput(name) == [tag |-> "ExternalInput", name |-> name]

ExpandedEdge(from, to) == [from |-> from, to |-> to]

\* ExpandedGraph: nodes maps a runtime id to its implementation id; runtime
\* ids are numbers ordered as the id strings are
ExpandedGraph(nodes, edges) == [nodes |-> nodes, edges |-> edges]

\* a PrimitiveCatalog (the version is fixed): one primitive of each kind, a
\* trigger whose output is not an Event, an action fed by it and a source of
\* Bool
Catalog ==
    [src  |-> PrimitiveMetadata("Source", <<>>, [out |-> "Number"]),
     cmp  |-> PrimitiveMetadata("Compute",
                  <<InputMetadata("in", "Number", TRUE)>>, [out |-> "Number"]),
     trg  |-> PrimitiveMetadata("Trigger",
                  <<InputMetadata("in", "Number", FALSE)>>, [out |-> "Event"]),
     act  |-> PrimitiveMetadata("Action",
                  <<InputMetadata("in", "Event", TRUE)>>, [out |-> "Event"]),
     trgN |-> PrimitiveMetadata("Trigger", <<>>, [out |-> "Number"]),
     actN |-> PrimitiveMetadata("Action",
                  <<InputMetadata("in", "Number", TRUE)>>, [out |-> "Event"]),
     srcB |-> PrimitiveMetadata("Source", <<>>, [out |-> "Bool"])]

\* ValidationError values and the outcomes of validate
Err(error) == [tag |-> "Err", error |-> error]

Panic == [tag |-> "Panic"]

Ok(value) == [tag |-> "Ok", value |-> value]

-----------------------------------------------------------------------------
(* crates/runtime/src/runtime/validate.rs *)

\* validate, first loop: the ValidatedNode of every node the catalog knows
attach_metadata(expanded, catalog) ==
    [id \in {n \in DOMAIN expanded.nodes : expanded.nodes[n] \in DOMAIN catalog} |->
        [runtime_id |-> id,
         impl_id |-> expanded.nodes[id],
         kind |-> catalog[expanded.nodes[id]].kind,
         inputs |-> catalog[expanded.nodes[id]].inputs,
         outputs |-> catalog[expanded.nodes[id]].outputs]]

RECURSIVE map_edges_drop_sink(_)
map_edges_drop_sink(edges) ==
    IF edges = <<>> THEN Ok(<<>>)
    ELSE LET e == Head(edges)
         IN  IF e.from.tag = "ExternalInput"
             THEN Err(<<"ExternalInputNotAllowed", e.from.name>>)
             ELSE IF e.to.tag = "ExternalInput"
             THEN map_edges_drop_sink(Tail(edges))
             ELSE LET rest == map_edges_drop_sink(Tail(edges))
                  IN  IF rest.tag = "Err" THEN rest
                      ELSE Ok(<<[from |-> [node_id |-> e.from.node_id,
                                           port_name |-> e.from.port_name],
                                 to |-> [node_id |-> e.to.node_id,
                                         port_name |-> e.to.port_name]]>>
                              \o rest.value)

RECURSIVE map_edges(_)
\* validate, the edges.iter().map(..).collect(): the first ExternalInput
\* endpoint (from before to) is the error, else the ValidatedEdge list
map_edges(edges) ==
    IF edges = <<>> THEN Ok(<<>>)
    ELSE LET e == Head(edges)
         IN  IF e.from.tag = "ExternalInput"
             THEN Err(<<"ExternalInputNotAllowed", e.from.name>>)
             ELSE IF e.to.tag = "ExternalInput"
             THEN Err(<<"ExternalInputNotAllowed", e.to.name>>)
             ELSE LET rest == map_edges(Tail(edges))
                  IN  IF rest.tag = "Err" THEN rest
                      ELSE Ok(<<[from |-> [node_id |-> e.from.node_id,
                                           port_name |-> e.from.port_name],
                                 to |-> [node_id |-> e.to.node_id,
                                         port_name |-> e.to.port_name]]>>
                              \o rest.value)

EdgesBetween(edges, from, to) ==
    {i \in 1 .. Len(edges) : edges[i].from.node_id = from /\ edges[i].to.node_id = to}

Min(S) == CHOOSE x \in S : \A y \in S : x <= y

RECURSIVE kahn_largest_first(_, _, _, _)
kahn_largest_first(edges, in_degree, queue, sorted) ==
    IF queue = {} THEN sorted
    ELSE LET node_id == CHOOSE x \in queue : \A y \in queue : y <= x
             deg == [d \in DOMAIN in_degree |->
                        in_degree[d] - Cardinality(EdgesBetween(edges, node_id, d))]
             ready == {d \in DOMAIN in_degree : in_degree[d] > 0 /\ deg[d] = 0}
         IN  kahn_largest_first(edges, deg, (queue \ {node_id}) \cup ready,
                                Append(sorted, node_id))

RECURSIVE kahn(_, _, _, _)
\* the while loop of topological_sort: queue is the BTreeSet
kahn(edges, in_degree, queue, sorted) ==
    IF queue = {} THEN sorted
    ELSE LET node_id == Min(queue)
             deg == [d \in DOMAIN in_degree |->
                        in_degree[d] - Cardinality(EdgesBetween(edges, node_id, d))]
             ready == {d \in DOMAIN in_degree : in_degree[d] > 0 /\ deg[d] = 0}
         IN  kahn(edges, deg, (queue \ {node_id}) \cup ready, Append(sorted, node_id))

\* topological_sort: the unwraps panic on an edge whose node is not in `nodes`
topological_sort(nodes, edges) ==
    IF \E i \in 1 .. Len(edges) :
          edges[i].to.node_id \notin DOMAIN nodes \/ edges[i].from.node_id \notin DOMAIN nodes
    THEN Panic
    ELSE LET in_degree == [d \in DOMAIN nodes |->
                              Cardinality({i \in 1 .. Len(edges) : edges[i].to.node_id = d})]
             sorted == kahn(edges, in_degree,
                            {d \in DOMAIN nodes : in_degree[d] = 0}, <<>>)
         IN  IF Len(sorted) # Cardinality(DOMAIN nodes)
             THEN Err(<<"CycleDetected">>)
             ELSE Ok(sorted)

wiring_allowed_source_trigger(from, to) ==
    <<from, to>> \in {<<"Source", "Compute">>, <<"Source", "Trigger">>,
                      <<"Compute", "Compute">>, <<"Compute", "Trigger">>,
                      <<"Trigger", "Trigger">>, <<"Trigger", "Action">>}

\* wiring_allowed
wiring_allowed(from, to) ==
    \/ from = "Source" /\ to = "Compute"
    \/ from = "Compute" /\ to = "Compute"
    \/ from = "Compute" /\ to = "Trigger"
    \/ from = "Trigger" /\ to = "Trigger"
    \/ from = "Trigger" /\ to = "Action"

RECURSIVE enforce_wiring_matrix(_, _)
\* enforce_wiring_matrix: the first offending edge decides
enforce_wiring_matrix(nodes, edges) ==
    IF edges = <<>> THEN Ok(<<>>)
    ELSE LET from == Head(edges).from.node_id
             to == Head(edges).to.node_id
         IN  IF from \notin DOMAIN nodes THEN Err(<<"UnknownNode", from>>)
             ELSE IF to \notin DOMAIN nodes THEN Err(<<"UnknownNode", to>>)
             ELSE IF ~wiring_allowed(nodes[from].kind, nodes[to].kind)
             THEN Err(<<"InvalidEdgeKind", nodes[from].kind, nodes[to].kind>>)
             ELSE enforce_wiring_matrix(nodes, Tail(edges))

\* ValidatedNode::required_inputs
required_inputs(node) ==
    {i \in 1 .. Len(node.inputs) : node.inputs[i].required}

\* enforce_required_inputs: every error the iteration over the node HashMap
\* can stop at (per node, its first uncovered required input); none if empty
enforce_required_inputs(nodes, edges) ==
    LET incoming == {<<edges[i].to.node_id, edges[i].to.port_name>> : i \in 1 .. Len(edges)}
        uncovered(id) == {i \in required_inputs(nodes[id]) :
                             <<id, nodes[id].inputs[i].name>> \notin incoming}
    IN  {Err(<<"MissingRequiredInput", id, nodes[id].inputs[Min(uncovered(id))].name>>) :
            id \in {n \in DOMAIN nodes : uncovered(n) # {}}}

RECURSIVE enforce_types_swapped(_, _)
enforce_types_swapped(nodes, edges) ==
    IF edges = <<>> THEN Ok(<<>>)
    ELSE LET from == Head(edges).from.node_id
             from_port == Head(edges).from.port_name
             to == Head(edges).to.node_id
             to_port == Head(edges).to.port_name
         IN  IF from \notin DOMAIN nodes THEN Err(<<"UnknownNode", from>>)
             ELSE IF to \notin DOMAIN nodes THEN Err(<<"UnknownNode", to>>)
             ELSE IF from_port \notin DOMAIN nodes[from].outputs
             THEN Err(<<"MissingOutputMetadata", from, from_port>>)
             ELSE IF \A i \in 1 .. Len(nodes[to].inputs) : nodes[to].inputs[i].name # to_port
             THEN Err(<<"MissingInputMetadata", to, to_port>>)
             ELSE LET from_type == nodes[from].outputs[from_port]
                      expected == nodes[to].inputs[
                                      Min({i \in 1 .. Len(nodes[to].inputs) :
                                              nodes[to].inputs[i].name = to_port})].value_type
                  IN  IF from_type # expected
                      THEN Err(<<"TypeMismatch", from, from_port, to, to_port,
                                 from_type, expected>>)
                      ELSE enforce_types_swapped(nodes, Tail(edges))

RECURSIVE enforce_types(_, _)
\* enforce_types: the first offending edge decides
enforce_types(nodes, edges) ==
    IF edges = <<>> THEN Ok(<<>>)
    ELSE LET from == Head(edges).from.node_id
             from_port == Head(edges).from.port_name
             to == Head(edges).to.node_id
             to_port == Head(edges).to.port_name
         IN  IF from \notin DOMAIN nodes THEN Err(<<"UnknownNode", from>>)
             ELSE IF to \notin DOMAIN nodes THEN Err(<<"UnknownNode", to>>)
             ELSE IF from_port \notin DOMAIN nodes[from].outputs
             THEN Err(<<"MissingOutputMetadata", from, from_port>>)
             ELSE IF \A i \in 1 .. Len(nodes[to].inputs) : nodes[to].inputs[i].name # to_port
             THEN Err(<<"MissingInputMetadata", to, to_port>>)
             ELSE LET from_type == nodes[from].outputs[from_port]
                      expected == nodes[to].inputs[
                                      Min({i \in 1 .. Len(nodes[to].inputs) :
                                              nodes[to].inputs[i].name = to_port})].value_type
                  IN  IF from_type # expected
                      THEN Err(<<"TypeMismatch", from, from_port, to, to_port,
                                 expected, from_type>>)
                      ELSE enforce_types(nodes, Tail(edges))

enforce_action_gating_any_trigger(nodes, edges) ==
    LET gated == {edges[i].to.node_id : i \in
                    {j \in 1 .. Len(edges) :
                        /\ edges[j].to.node_id \in DOMAIN nodes
                        /\ nodes[edges[j].to.node_id].kind = "Action"
                        /\ edges[j].from.node_id \in DOMAIN nodes
                        /\ nodes[edges[j].from.node_id].kind = "Trigger"}}
    IN  {Err(<<"ActionNotGated", id>>) :
            id \in {n \in DOMAIN nodes : nodes[n].kind = "Action" /\ n \notin gated}}

\* enforce_action_gating: every error the iteration over the node HashMap can
\* stop at; none if every Action is gated
enforce_action_gating(nodes, edges) ==
    LET gated == {edges[i].to.node_id : i \in
                    {j \in 1 .. Len(edges) :
                        /\ edges[j].to.node_id \in DOMAIN nodes
                        /\ nodes[edges[j].to.node_id].kind = "Action"
                        /\ edges[j].from.node_id \in DOMAIN nodes
                        /\ nodes[edges[j].from.node_id].kind = "Trigger"
                        /\ edges[j].from.port_name
                              \in DOMAIN nodes[edges[j].from.node_id].outputs
                        /\ nodes[edges[j].from.node_id].outputs[edges[j].from.port_name]
                              = "Event"}}
    IN  {Err(<<"ActionNotGated", id>>) :
            id \in {n \in DOMAIN nodes : nodes[n].kind = "Action" /\ n \notin gated}}

\* validate: the set of outcomes it can return (more than one only where the
\* iteration order of a HashMap picks the error); Panic is a panic
validate(expanded, catalog) ==
    LET missing == {n \in DOMAIN expanded.nodes : expanded.nodes[n] \notin DOMAIN catalog}
        nodes == attach_metadata(expanded, catalog)
        mapped == map_edges(expanded.edges)
    IN  IF missing # {}
        THEN {Err(<<"MissingPrimitive", expanded.nodes[n]>>) : n \in missing}
        ELSE IF mapped.tag = "Err" THEN {mapped}
        ELSE LET edges == mapped.value
                 topo == topological_sort(nodes, edges)
                 wiring == enforce_wiring_matrix(nodes, edges)
                 required == enforce_required_inputs(nodes, edges)
                 types == enforce_types(nodes, edges)
                 gating == enforce_action_gating(nodes, edges)
             IN  IF topo.tag # "Ok" THEN {topo}
                 ELSE IF wiring.tag = "Err" THEN {wiring}
                 ELSE IF required # {} THEN required
                 ELSE IF types.tag = "Err" THEN {types}
                 ELSE IF gating # {} THEN gating
                 ELSE {Ok([nodes |-> nodes, edges |-> edges, topo_order |-> topo.value])}

\* a call of validate on the graph at hand
Validate ==
    /\ result = None
    /\ \E r \in validate(graph, Catalog) : result' = Some(r)
    /\ UNCHANGED <<supervisor, bundle, phase, replayed, handle, runs, graph, root, loader, registries, ctx, passes>>

-----------------------------------------------------------------------------
(* crates/runtime/src/cluster.rs: cluster definitions, signatures, expansion *)
(* Versions are fixed.  An external key, the "/"-joined string of            *)
(* external_key, is the tuple of its parts.  The `parameters` of the         *)
(* expanded nodes are the map `parameters` of the graph, keyed as `nodes`.   *)

OutputRef(node_id, port_name) == [node_id |-> node_id, port_name |-> port_name]

InputRef(node_id, port_name) == [node_id |-> node_id, port_name |-> port_name]

Edge(from, to) == [from |-> from, to |-> to]

GraphInputPlaceholder(name, ty, required) ==
    [name |-> name, ty |-> ty, required |-> required]

InputPortSpec(name, maps_to) == [name |-> name, maps_to |-> maps_to]

OutputPortSpec(name, maps_to) == [name |-> name, maps_to |-> maps_to]

\* NodeKind
Impl(impl_id) == [tag |-> "Impl", impl_id |-> impl_id]

Cluster(cluster_id) == [tag |-> "Cluster", cluster_id |-> cluster_id]

\* ParameterBinding
Literal(value) == [tag |-> "Literal", value |-> value]

Exposed(parent_param) == [tag |-> "Exposed", parent_param |-> parent_param]

\* ParameterSpec; default is the Option<ParameterValue>
ParameterSpec(name, ty, default, required) ==
    [name |-> name, ty |-> ty, default |-> default, required |-> required]

\* NodeInstance without parameter bindings, and with them
NodeInstance(id, kind) == [id |-> id, kind |-> kind, parameter_bindings |-> <<>>]

with_bindings(node, parameter_bindings) ==
    [node EXCEPT !.parameter_bindings = parameter_bindings]

BoundaryKind == {"SourceLike", "ComputeLike", "TriggerLike", "ActionLike"}

\* PortSpec; the cardinality is copied from the metadata and not modelled
PortSpec(name, ty, wireable) == [name |-> name, ty |-> ty, wireable |-> wireable]

Signature(kind, inputs, outputs, has_side_effects, is_origin) ==
    [kind |-> kind, inputs |-> inputs, outputs |-> outputs,
     has_side_effects |-> has_side_effects, is_origin |-> is_origin]

\* ClusterDefinition without parameters, and with them; nodes is the
\* HashMap<NodeId, NodeInstance>
ClusterDefinition(id, nodes, edges, input_ports, output_ports, declared_signature) ==
    [id |-> id, nodes |-> nodes, edges |-> edges, input_ports |-> input_ports,
     output_ports |-> output_ports, parameters |-> <<>>,
     declared_signature |-> declared_signature]

with_parameters(cluster_def, parameters) == [cluster_def EXCEPT !.parameters = parameters]

\* ExpandContext::next_runtime_id: format!("n{}", next_id)
next_runtime_id(next_id) ==
    <<"n0", "n1", "n2", "n3", "n4", "n5", "n6", "n7", "n8", "n9", "n10", "n11">>[next_id + 1]

\* the abort of a recursion that never returns
StackOverflow == [tag |-> "StackOverflow"]

\* HashMap::insert
insert(map, k, v) == [x \in DOMAIN map \cup {k} |-> IF x = k THEN v ELSE map[x]]

\* the name of the first port whose name an earlier port of the list has
first_duplicate(ports) ==
    LET dups == {i \in 1 .. Len(ports) : \E j \in 1 .. i - 1 : ports[j].name = ports[i].name}
    IN  IF dups = {} THEN None ELSE Some(ports[Min(dups)].name)

\* parameter_value_type
parameter_value_type(value) == value[1]

\* validate_cluster_definition, the loop over the parameters: the error of the
\* first parameter that repeats a name or whose default has another type
validate_parameters(parameters) ==
    LET bad == {i \in 1 .. Len(parameters) :
                   \/ \E j \in 1 .. i - 1 : parameters[j].name = parameters[i].name
                   \/ /\ is_some(parameters[i].default)
                      /\ parameter_value_type(unwrap(parameters[i].default)) # parameters[i].ty}
        param == parameters[Min(bad)]
    IN  IF bad = {} THEN Ok(<<>>)
        ELSE IF \E j \in 1 .. Min(bad) - 1 : parameters[j].name = param.name
        THEN Err(<<"DuplicateParameter", param.name>>)
        ELSE Err(<<"ParameterDefaultTypeMismatch", param.name, param.ty,
                   parameter_value_type(unwrap(param.default))>>)

\* validate_cluster_definition
validate_cluster_definition(cluster_def) ==
    IF is_some(first_duplicate(cluster_def.input_ports))
    THEN Err(<<"DuplicateInputPort", unwrap(first_duplicate(cluster_def.input_ports))>>)
    ELSE IF is_some(first_duplicate(cluster_def.output_ports))
    THEN Err(<<"DuplicateOutputPort", unwrap(first_duplicate(cluster_def.output_ports))>>)
    ELSE validate_parameters(cluster_def.parameters)

RECURSIVE infer_outputs(_, _, _)
\* infer_signature, the loop over boundary_outputs: the PortSpec list, or the
\* error of the first output that names no node or no declared output
infer_outputs(boundary_outputs, nodes, catalog) ==
    IF boundary_outputs = <<>> THEN Ok(<<>>)
    ELSE LET output == Head(boundary_outputs)
         IN  IF output.maps_to.node_id \notin DOMAIN nodes
             THEN Err(<<"MissingNode", output.maps_to.node_id>>)
             ELSE IF output.maps_to.port_name
                        \notin DOMAIN catalog[nodes[output.maps_to.node_id]].outputs
             THEN Err(<<"MissingOutput", nodes[output.maps_to.node_id],
                        output.maps_to.port_name>>)
             ELSE LET meta == catalog[nodes[output.maps_to.node_id]]
                      rest == infer_outputs(Tail(boundary_outputs), nodes, catalog)
                  IN  IF rest.tag = "Err" THEN rest
                      ELSE Ok(<<PortSpec(output.name,
                                         meta.outputs[output.maps_to.port_name],
                                         meta.kind # "Action")>> \o rest.value)

\* roots_are_sources
roots_are_sources(g, catalog) ==
    LET incoming == {g.edges[i].to.node_id : i \in
                        {j \in 1 .. Len(g.edges) :
                            g.edges[j].from.tag = "NodePort" /\ g.edges[j].to.tag = "NodePort"}}
    IN  \A node_id \in DOMAIN g.nodes :
            node_id \notin incoming => catalog[g.nodes[node_id]].kind = "Source"

infer_kind_ignoring_inputs(boundary_inputs, outputs) ==
    LET wireable_out_types == {outputs[i].ty : i \in {j \in 1 .. Len(outputs) : outputs[j].wireable}}
    IN  IF wireable_out_types = {} THEN "ActionLike"
        ELSE IF wireable_out_types \subseteq {"Number", "Series", "Bool", "String"}
        THEN "SourceLike"
        ELSE IF "Event" \in wireable_out_types THEN "TriggerLike"
        ELSE "ComputeLike"

\* infer_signature, the choice of the BoundaryKind
infer_kind(boundary_inputs, outputs) ==
    LET wireable_out_types == {outputs[i].ty : i \in {j \in 1 .. Len(outputs) : outputs[j].wireable}}
    IN  IF wireable_out_types = {} THEN "ActionLike"
        ELSE IF /\ boundary_inputs = <<>>
                /\ wireable_out_types \subseteq {"Number", "Series", "Bool", "String"}
        THEN "SourceLike"
        ELSE IF "Event" \in wireable_out_types THEN "TriggerLike"
        ELSE "ComputeLike"

\* infer_signature: the set of outcomes it can return (more than one only
\* where the iteration order of the node HashMap picks the missing primitive)
infer_signature(g, catalog) ==
    LET missing == {n \in DOMAIN g.nodes : g.nodes[n] \notin DOMAIN catalog}
        inputs == [i \in 1 .. Len(g.boundary_inputs) |->
                      PortSpec(g.boundary_inputs[i].name, g.boundary_inputs[i].maps_to.ty, FALSE)]
        outputs == infer_outputs(g.boundary_outputs, g.nodes, catalog)
    IN  IF missing # {}
        THEN {Err(<<"MissingPrimitive", g.nodes[n]>>) : n \in missing}
        ELSE IF outputs.tag = "Err" THEN {outputs}
        ELSE {Ok(Signature(infer_kind(g.boundary_inputs, outputs.value),
                           inputs, outputs.value,
                           \E n \in DOMAIN g.nodes : catalog[g.nodes[n]].kind = "Action",
                           g.boundary_inputs = <<>> /\ roots_are_sources(g, catalog)))}

\* the declared ports that claim wireable where the inferred port of the same
\* name (the first one found) is not wireable
exceeding(declared_ports, inferred_ports) ==
    {i \in 1 .. Len(declared_ports) :
        LET found == {k \in 1 .. Len(inferred_ports) :
                         inferred_ports[k].name = declared_ports[i].name}
        IN  /\ found # {}
            /\ declared_ports[i].wireable
            /\ ~inferred_ports[Min(found)].wireable}

validate_declared_signature_outputs_only(declared, inferred) ==
    IF exceeding(declared.outputs, inferred.outputs) # {}
    THEN Err(<<"WireabilityExceedsInferred",
               declared.outputs[Min(exceeding(declared.outputs, inferred.outputs))].name>>)
    ELSE Ok(<<>>)

\* validate_declared_signature
validate_declared_signature(declared, inferred) ==
    IF exceeding(declared.outputs, inferred.outputs) # {}
    THEN Err(<<"WireabilityExceedsInferred",
               declared.outputs[Min(exceeding(declared.outputs, inferred.outputs))].name>>)
    ELSE IF exceeding(declared.inputs, inferred.inputs) # {}
    THEN Err(<<"WireabilityExceedsInferred",
               declared.inputs[Min(exceeding(declared.inputs, inferred.inputs))].name>>)
    ELSE Ok(<<>>)

\* external_key
external_key(authoring_prefix, cluster_id, name) ==
    <<authoring_prefix, cluster_id, name>>

\* build_placeholder_map
build_placeholder_map(authoring_prefix, cluster_id, input_ports) ==
    [name \in {input_ports[i].maps_to.name : i \in 1 .. Len(input_ports)} |->
        external_key(authoring_prefix, cluster_id, name)]

\* resolve_output_endpoint
resolve_output_endpoint(output, node_mapping, cluster_output_map, authoring_prefix, cluster_id) ==
    IF output.node_id \in DOMAIN node_mapping
    THEN NodePort(node_mapping[output.node_id], output.port_name)
    ELSE IF /\ output.node_id \in DOMAIN cluster_output_map
            /\ output.port_name \in DOMAIN cluster_output_map[output.node_id]
    THEN cluster_output_map[output.node_id][output.port_name]
    ELSE ExternalInput(external_key(authoring_prefix, cluster_id, output.node_id))

\* resolve_input_endpoint
resolve_input_endpoint(input, node_mapping, cluster_input_map, placeholder_map, authoring_prefix, cluster_id) ==
    IF input.node_id \in DOMAIN node_mapping
    THEN NodePort(node_mapping[input.node_id], input.port_name)
    ELSE IF /\ input.node_id \in DOMAIN cluster_input_map
            /\ input.port_name \in DOMAIN cluster_input_map[input.node_id]
    THEN ExternalInput(cluster_input_map[input.node_id][input.port_name])
    ELSE IF input.node_id \in DOMAIN placeholder_map
    THEN ExternalInput(placeholder_map[input.node_id])
    ELSE ExternalInput(external_key(authoring_prefix, cluster_id, input.node_id))

redirect_placeholder_edges_first_only(edges, placeholder, source) ==
    LET reads == {i \in 1 .. Len(edges) : edges[i].from = ExternalInput(placeholder)}
    IN  [edges |-> [i \in 1 .. Len(edges) |->
                       IF reads # {} /\ i = Min(reads)
                       THEN [edges[i] EXCEPT !.from = source] ELSE edges[i]],
         replaced |-> reads # {}]

\* redirect_placeholder_edges: the rewritten edge list and the flag
redirect_placeholder_edges(edges, placeholder, source) ==
    LET reads == {i \in 1 .. Len(edges) : edges[i].from = ExternalInput(placeholder)}
    IN  [edges |-> [i \in 1 .. Len(edges) |->
                       IF i \in reads THEN [edges[i] EXCEPT !.from = source] ELSE edges[i]],
         replaced |-> reads # {}]

RECURSIVE expand_edges(_, _, _, _, _, _, _, _)
\* expand_with_context, the loop over cluster_def.edges
expand_edges(cluster_edges, edges, node_mapping, cluster_output_map, cluster_input_map, placeholder_map, authoring_prefix, cluster_id) ==
    IF cluster_edges = <<>> THEN edges
    ELSE LET from == resolve_output_endpoint(Head(cluster_edges).from, node_mapping,
                         cluster_output_map, authoring_prefix, cluster_id)
             to == resolve_input_endpoint(Head(cluster_edges).to, node_mapping,
                       cluster_input_map, placeholder_map, authoring_prefix, cluster_id)
             redirected == redirect_placeholder_edges(edges, to.name, from)
             next == IF to.tag = "ExternalInput"
                     THEN IF redirected.replaced THEN redirected.edges
                          ELSE Append(edges, ExpandedEdge(from, to))
                     ELSE Append(edges, ExpandedEdge(from, to))
         IN  expand_edges(Tail(cluster_edges), next, node_mapping, cluster_output_map,
                          cluster_input_map, placeholder_map, authoring_prefix, cluster_id)

\* the orders in which a HashMap with these keys can be iterated
iteration_orders(keys) ==
    {order \in [1 .. Cardinality(keys) -> keys] :
        \A i, j \in 1 .. Cardinality(keys) : order[i] = order[j] => i = j}

RECURSIVE input_map_of(_, _)
\* expand_with_context, the input_map of a nested cluster node
input_map_of(input_ports, placeholder_map) ==
    IF input_ports = <<>> THEN <<>>
    ELSE insert(input_map_of(SubSeq(input_ports, 1, Len(input_ports) - 1), placeholder_map),
                Last(input_ports).name,
                placeholder_map[Last(input_ports).maps_to.name])

RECURSIVE output_map_of(_, _)
\* expand_with_context, the output_map of a nested cluster node
output_map_of(output_ports, nested_mapping) ==
    IF output_ports = <<>> THEN <<>>
    ELSE LET rest == output_map_of(SubSeq(output_ports, 1, Len(output_ports) - 1),
                                   nested_mapping)
             port == Last(output_ports)
         IN  IF port.maps_to.node_id \in DOMAIN nested_mapping
             THEN insert(rest, port.name,
                         NodePort(nested_mapping[port.maps_to.node_id], port.maps_to.port_name))
             ELSE rest

\* merge_graph and the copy of the nested node_mapping: b over a
merge(a, b) == [x \in DOMAIN a \cup DOMAIN b |-> IF x \in DOMAIN b THEN b[x] ELSE a[x]]

apply_literal_bindings_ignored(cluster_def, bindings) == cluster_def

\* apply_literal_bindings: a copy of the definition in which a binding
\* Exposed(p) of any node is the Literal that `bindings` holds for p
apply_literal_bindings(cluster_def, bindings) ==
    [cluster_def EXCEPT !.nodes =
        [id \in DOMAIN cluster_def.nodes |->
            [cluster_def.nodes[id] EXCEPT !.parameter_bindings =
                [k \in DOMAIN cluster_def.nodes[id].parameter_bindings |->
                    LET binding == cluster_def.nodes[id].parameter_bindings[k]
                    IN  IF /\ binding.tag = "Exposed"
                           /\ binding.parent_param \in DOMAIN bindings
                           /\ bindings[binding.parent_param].tag = "Literal"
                        THEN Literal(bindings[binding.parent_param].value)
                        ELSE binding]]]]

\* resolve_parameter_bindings
resolve_parameter_bindings(bindings) ==
    [k \in {name \in DOMAIN bindings : bindings[name].tag = "Literal"} |-> bindings[k].value]

occurrences(loading, cluster_id) ==
    Cardinality({i \in DOMAIN loading : loading[i] = cluster_id})

RECURSIVE expand_with_context(_, _, _, _, _)
RECURSIVE expand_nodes(_, _, _, _, _, _)
\* expand_with_context, the loop over cluster_def.nodes taken in `order`: the
\* outcomes it can end in.  acc holds graph, maps and ctx.next_id; `loading`
\* is the stack of cluster ids whose expansion is under way.  A cluster that
\* is reached again while under way is expanded once more, for the errors an
\* iteration order can meet ahead of the node that leads back to it; reached
\* a third time the recursion has shown that it never returns
expand_nodes(cluster_def, cluster_loader, order, acc, authoring_prefix, loading) ==
    IF order = <<>> THEN {Ok(acc)}
    ELSE LET node == cluster_def.nodes[Head(order)]
         IN  IF node.kind.tag = "Impl"
             THEN expand_nodes(cluster_def, cluster_loader, Tail(order),
                      [acc EXCEPT !.nodes = insert(@, next_runtime_id(acc.next_id),
                                                       node.kind.impl_id),
                                  !.parameters = insert(@, next_runtime_id(acc.next_id),
                                                        resolve_parameter_bindings(
                                                            node.parameter_bindings)),
                                  !.node_mapping = insert(@, node.id,
                                                          next_runtime_id(acc.next_id)),
                                  !.next_id = @ + 1],
                      authoring_prefix, loading)
             ELSE IF node.kind.cluster_id \notin DOMAIN cluster_loader
             THEN {Err(<<"MissingCluster", node.kind.cluster_id>>)}
             ELSE IF occurrences(loading, node.kind.cluster_id) >= 2
             THEN {StackOverflow}
             ELSE LET nested_def == apply_literal_bindings(cluster_loader[node.kind.cluster_id],
                                                           node.parameter_bindings)
                      nested_builds ==
                          expand_with_context(nested_def, cluster_loader, acc.next_id,
                              Append(authoring_prefix, <<cluster_def.id, node.id>>),
                              Append(loading, node.kind.cluster_id))
                  IN  UNION {IF nb.tag # "Ok" THEN {nb}
                             ELSE expand_nodes(cluster_def, cluster_loader, Tail(order),
                                      [nodes |-> merge(acc.nodes, nb.value.graph.nodes),
                                       parameters |-> merge(acc.parameters,
                                                            nb.value.graph.parameters),
                                       edges |-> acc.edges \o nb.value.graph.edges,
                                       node_mapping |->
                                           merge(acc.node_mapping, nb.value.node_mapping),
                                       cluster_input_map |->
                                           insert(acc.cluster_input_map, node.id,
                                                  input_map_of(nested_def.input_ports,
                                                               nb.value.placeholder_map)),
                                       cluster_output_map |->
                                           insert(acc.cluster_output_map, node.id,
                                                  output_map_of(nested_def.output_ports,
                                                                nb.value.node_mapping)),
                                       next_id |-> nb.value.next_id],
                                      authoring_prefix, loading) :
                             nb \in nested_builds}

\* expand_with_context: the outcomes it can end in, an ExpandBuild with the
\* ExpandContext's next_id, an ExpandError or a recursion without end
expand_with_context(cluster_def, cluster_loader, next_id, authoring_prefix, loading) ==
    IF DOMAIN cluster_def.nodes = {} THEN {Err(<<"EmptyCluster">>)}
    ELSE LET placeholder_map == build_placeholder_map(authoring_prefix, cluster_def.id,
                                                      cluster_def.input_ports)
             start == [nodes |-> <<>>, parameters |-> <<>>, edges |-> <<>>,
                       node_mapping |-> <<>>,
                       cluster_input_map |-> <<>>, cluster_output_map |-> <<>>,
                       next_id |-> next_id]
             after_nodes == UNION {expand_nodes(cluster_def, cluster_loader, order, start,
                                                authoring_prefix, loading) :
                                   order \in iteration_orders(DOMAIN cluster_def.nodes)}
         IN  {IF r.tag # "Ok" THEN r
              ELSE Ok([graph |-> [nodes |-> r.value.nodes,
                                  parameters |-> r.value.parameters,
                                  edges |-> expand_edges(cluster_def.edges, r.value.edges,
                                                r.value.node_mapping,
                                                r.value.cluster_output_map,
                                                r.value.cluster_input_map, placeholder_map,
                                                authoring_prefix, cluster_def.id)],
                       node_mapping |-> r.value.node_mapping,
                       placeholder_map |-> placeholder_map,
                       next_id |-> r.value.next_id]) :
              r \in after_nodes}

\* map_boundary_outputs
map_boundary_outputs(outputs, mapping) ==
    [i \in 1 .. Len(outputs) |->
        OutputPortSpec(outputs[i].name,
            OutputRef(IF outputs[i].maps_to.node_id \in DOMAIN mapping
                      THEN mapping[outputs[i].maps_to.node_id]
                      ELSE outputs[i].maps_to.node_id,
                      outputs[i].maps_to.port_name))]

\* expand, from the E.3 check on: the debug_assert panics in a build with
\* debug assertions and is absent from a build without them
check_and_sign(cluster_def, g, catalog) ==
    LET signed ==
            IF ~is_some(cluster_def.declared_signature) THEN {Ok(g)}
            ELSE {IF inferred.tag = "Err"
                  THEN Err(<<"SignatureInferenceFailed", inferred.error>>)
                  ELSE IF validate_declared_signature(unwrap(cluster_def.declared_signature),
                                                      inferred.value).tag = "Err"
                  THEN Err(<<"DeclaredSignatureInvalid",
                             validate_declared_signature(
                                 unwrap(cluster_def.declared_signature),
                                 inferred.value).error>>)
                  ELSE Ok(g) :
                  inferred \in infer_signature(g, catalog)}
    IN  IF \E i \in 1 .. Len(g.edges) : g.edges[i].to.tag = "ExternalInput"
        THEN {Panic} \cup signed
        ELSE signed

\* the ExpandedGraph of a build with the root's boundary ports
with_boundary(cluster_def, build) ==
    [nodes |-> build.graph.nodes,
     parameters |-> build.graph.parameters,
     edges |-> build.graph.edges,
     boundary_inputs |-> cluster_def.input_ports,
     boundary_outputs |-> map_boundary_outputs(cluster_def.output_ports, build.node_mapping)]

\* expand: the set of outcomes it can end in
expand(cluster_def, cluster_loader, catalog) ==
    IF validate_cluster_definition(cluster_def).tag = "Err"
    THEN {validate_cluster_definition(cluster_def)}
    ELSE UNION {IF b.tag # "Ok" THEN {b}
                ELSE check_and_sign(cluster_def, with_boundary(cluster_def, b.value), catalog) :
                b \in expand_with_context(cluster_def, cluster_loader, 0, <<>>, <<>>)}

\* a call of expand on the root definition at hand
Expand ==
    /\ is_some(root)
    /\ result = None
    /\ \E r \in expand(unwrap(root), loader, Catalog) : result' = Some(r)
    /\ UNCHANGED <<supervisor, bundle, phase, replayed, handle, runs, graph, root, loader, registries, ctx, passes>>

\* a call of infer_signature on the graph at hand
InferSignature ==
    /\ ~is_some(root)
    /\ result = None
    /\ \E r \in infer_signature(graph, Catalog) : result' = Some(r)
    /\ UNCHANGED <<supervisor, bundle, phase, replayed, handle, runs, graph, root, loader, registries, ctx, passes>>

-----------------------------------------------------------------------------
(* crates/runtime/src/{source,compute,trigger,action}/registry.rs            *)
(* A registry is its map `primitives`, from manifest id to the boxed         *)
(* primitive.  A boxed primitive is its manifest and the identity of the     *)
(* object (instance), so that two implementations with equal manifests stay  *)
(* apart.  The parameters of a manifest, which no rule of a registry reads,  *)
(* are left out.  Each of the kind enums of the four manifests has a single  *)
(* variant, and so has the Cadence of a source.                              *)

InputSpec(name, value_type) == [name |-> name, value_type |-> value_type]

OutputSpec(name, value_type) == [name |-> name, value_type |-> value_type]

SourcePrimitiveManifest(id, version, inputs, outputs, deterministic, allowed, side_effects) ==
    [id |-> id, version |-> version, kind |-> "Source", inputs |-> inputs,
     outputs |-> outputs,
     execution |-> [deterministic |-> deterministic, cadence |-> "Continuous"],
     state |-> [allowed |-> allowed], side_effects |-> side_effects]

ComputePrimitiveManifest(id, version, inputs, outputs, deterministic, side_effects) ==
    [id |-> id, version |-> version, kind |-> "Compute", inputs |-> inputs,
     outputs |-> outputs,
     execution |-> [deterministic |-> deterministic, cadence |-> "Continuous"],
     side_effects |-> side_effects]

TriggerPrimitiveManifest(id, version, inputs, outputs, deterministic, allowed, side_effects) ==
    [id |-> id, version |-> version, kind |-> "Trigger", inputs |-> inputs,
     outputs |-> outputs,
     execution |-> [deterministic |-> deterministic, cadence |-> "Continuous"],
     state |-> [allowed |-> allowed], side_effects |-> side_effects]

ActionPrimitiveManifest(id, version, inputs, outputs, deterministic, retryable, allowed, side_effects) ==
    [id |-> id, version |-> version, kind |-> "Action", inputs |-> inputs,
     outputs |-> outputs,
     execution |-> [deterministic |-> deterministic, retryable |-> retryable],
     state |-> [allowed |-> allowed], side_effects |-> side_effects]

\* Box<dyn ...Primitive>: the object and the manifest its manifest() returns
Primitive(manifest, instance) == [manifest |-> manifest, instance |-> instance]

Registry_new == <<>>

Registries_new == [sources |-> Registry_new, computes |-> Registry_new, triggers |-> Registry_new, actions |-> Registry_new]

SourceRegistry_validate_manifest(manifest) ==
    IF manifest.kind # "Source"
    THEN Err(<<"WrongKind", "Source", manifest.kind>>)
    ELSE IF manifest.inputs # <<>> THEN Err(<<"InputsNotAllowed">>)
    ELSE IF manifest.side_effects THEN Err(<<"SideEffectsNotAllowed">>)
    ELSE IF ~manifest.execution.deterministic THEN Err(<<"NonDeterministicExecution">>)
    ELSE IF manifest.execution.cadence # "Continuous" THEN Err(<<"InvalidCadence">>)
    ELSE IF manifest.state.allowed THEN Err(<<"StateNotAllowed">>)
    ELSE IF manifest.outputs = <<>> THEN Err(<<"OutputsRequired">>)
    ELSE Ok(<<>>)

PrimitiveRegistry_validate_manifest(manifest) ==
    IF manifest.kind # "Compute"
    THEN Err(<<"WrongKind", "Compute", manifest.kind>>)
    ELSE IF manifest.side_effects THEN Err(<<"SideEffectsNotAllowed">>)
    ELSE IF ~manifest.execution.deterministic THEN Err(<<"NonDeterministicExecution">>)
    ELSE IF manifest.inputs = <<>> THEN Err(<<"NoInputsDeclared", manifest.id>>)
    ELSE Ok(<<>>)

TriggerRegistry_validate_outputs(outputs) ==
    IF Len(outputs) # 1
    THEN Err(<<"UndeclaredOutput", "trigger", "expected exactly one event output">>)
    ELSE IF outputs[1].value_type # "Event"
    THEN Err(<<"InvalidOutputType", outputs[1].name, "Event", outputs[1].value_type>>)
    ELSE Ok(<<>>)

TriggerRegistry_validate_manifest(manifest) ==
    IF manifest.kind # "Trigger"
    THEN Err(<<"WrongKind", "Trigger", manifest.kind>>)
    ELSE IF manifest.side_effects THEN Err(<<"SideEffectsNotAllowed">>)
    ELSE IF ~manifest.execution.deterministic THEN Err(<<"NonDeterministicExecution">>)
    ELSE IF manifest.state.allowed THEN Err(<<"StatefulTriggerNotAllowed", manifest.id>>)
    ELSE TriggerRegistry_validate_outputs(manifest.outputs)

ActionRegistry_validate_outputs(outputs) ==
    IF Len(outputs) # 1
    THEN Err(<<"UndeclaredOutput", "action", "expected exactly one outcome event">>)
    ELSE IF outputs[1].name # "outcome" \/ outputs[1].value_type # "Event"
    THEN Err(<<"InvalidOutputType", outputs[1].name, "Event", outputs[1].value_type>>)
    ELSE Ok(<<>>)

ActionRegistry_validate_manifest(manifest) ==
    IF manifest.kind # "Action"
    THEN Err(<<"WrongKind", "Action", manifest.kind>>)
    ELSE IF ~manifest.side_effects THEN Err(<<"SideEffectsRequired">>)
    ELSE IF manifest.execution.retryable THEN Err(<<"RetryNotAllowed">>)
    ELSE IF ~manifest.execution.deterministic THEN Err(<<"NonDeterministicExecution">>)
    ELSE IF manifest.state.allowed THEN Err(<<"StateNotAllowed">>)
    ELSE IF ~(\E i \in DOMAIN manifest.inputs : manifest.inputs[i].value_type = "Event")
    THEN Err(<<"EventInputRequired">>)
    ELSE ActionRegistry_validate_outputs(manifest.outputs)

\* register with the duplicate check left out: the insert replaces the entry
PrimitiveRegistry_register_overwriting(primitives, primitive) ==
    LET manifest == primitive.manifest
    IN  IF PrimitiveRegistry_validate_manifest(manifest).tag = "Err"
        THEN [result |-> PrimitiveRegistry_validate_manifest(manifest), primitives |-> primitives]
        ELSE [result |-> Ok(<<>>), primitives |-> insert(primitives, manifest.id, primitive)]

\* each register yields the call's result and the map `primitives` after it
SourceRegistry_register(primitives, primitive) ==
    LET manifest == primitive.manifest
    IN  IF SourceRegistry_validate_manifest(manifest).tag = "Err"
        THEN [result |-> SourceRegistry_validate_manifest(manifest), primitives |-> primitives]
        ELSE IF manifest.id \in DOMAIN primitives
        THEN [result |-> Err(<<"DuplicateId", manifest.id>>), primitives |-> primitives]
        ELSE [result |-> Ok(<<>>), primitives |-> insert(primitives, manifest.id, primitive)]

PrimitiveRegistry_register(primitives, primitive) ==
    LET manifest == primitive.manifest
    IN  IF PrimitiveRegistry_validate_manifest(manifest).tag = "Err"
        THEN [result |-> PrimitiveRegistry_validate_manifest(manifest), primitives |-> primitives]
        ELSE IF manifest.id \in DOMAIN primitives
        THEN [result |-> Err(<<"DuplicateId", manifest.id>>), primitives |-> primitives]
        ELSE [result |-> Ok(<<>>), primitives |-> insert(primitives, manifest.id, primitive)]

TriggerRegistry_register(primitives, primitive) ==
    LET manifest == primitive.manifest
    IN  IF TriggerRegistry_validate_manifest(manifest).tag = "Err"
        THEN [result |-> TriggerRegistry_validate_manifest(manifest), primitives |-> primitives]
        ELSE IF manifest.id \in DOMAIN primitives
        THEN [result |-> Err(<<"DuplicateId", manifest.id>>), primitives |-> primitives]
        ELSE [result |-> Ok(<<>>), primitives |-> insert(primitives, manifest.id, primitive)]

ActionRegistry_register(primitives, primitive) ==
    LET manifest == primitive.manifest
    IN  IF ActionRegistry_validate_manifest(manifest).tag = "Err"
        THEN [result |-> ActionRegistry_validate_manifest(manifest), primitives |-> primitives]
        ELSE IF manifest.id \in DOMAIN primitives
        THEN [result |-> Err(<<"DuplicateId", manifest.id>>), primitives |-> primitives]
        ELSE [result |-> Ok(<<>>), primitives |-> insert(primitives, manifest.id, primitive)]

\* get of each registry: HashMap::get on `primitives`
get(primitives, id) == IF id \in DOMAIN primitives THEN Some(primitives[id]) ELSE None

\* the entries the four registries hold together
Registered == Cardinality(DOMAIN registries.sources) + Cardinality(DOMAIN registries.computes) + Cardinality(DOMAIN registries.triggers) + Cardinality(DOMAIN registries.actions)

\* the record of a call: the registry called, the primitive handed over, the
\* four maps before the call and the call's result
Call(registry, primitive, outcome) == [registry |-> registry, primitive |-> primitive, before |-> registries, outcome |-> outcome]

\* a call of SourceRegistry::register
RegisterSource(primitive) ==
    /\ Registered < MaxRegistered
    /\ LET r == SourceRegistry_register(registries.sources, primitive)
       IN  /\ registries' = [registries EXCEPT !.sources = r.primitives]
           /\ result' = Some(Call("sources", primitive, r.result))
    /\ UNCHANGED <<supervisor, bundle, phase, replayed, handle, runs, graph, root, loader, ctx, passes>>

\* a call of PrimitiveRegistry::register
RegisterCompute(primitive) ==
    /\ Registered < MaxRegistered
    /\ LET r == PrimitiveRegistry_register(registries.computes, primitive)
       IN  /\ registries' = [registries EXCEPT !.computes = r.primitives]
           /\ result' = Some(Call("computes", primitive, r.result))
    /\ UNCHANGED <<supervisor, bundle, phase, replayed, handle, runs, graph, root, loader, ctx, passes>>

\* a call of TriggerRegistry::register
RegisterTrigger(primitive) ==
    /\ Registered < MaxRegistered
    /\ LET r == TriggerRegistry_register(registries.triggers, primitive)
       IN  /\ registries' = [registries EXCEPT !.triggers = r.primitives]
           /\ result' = Some(Call("triggers", primitive, r.result))
    /\ UNCHANGED <<supervisor, bundle, phase, replayed, handle, runs, graph, root, loader, ctx, passes>>

\* a call of ActionRegistry::register
RegisterAction(primitive) ==
    /\ Registered < MaxRegistered
    /\ LET r == ActionRegistry_register(registries.actions, primitive)
       IN  /\ registries' = [registries EXCEPT !.actions = r.primitives]
           /\ result' = Some(Call("actions", primitive, r.result))
    /\ UNCHANGED <<supervisor, bundle, phase, replayed, handle, runs, graph, root, loader, ctx, passes>>

-----------------------------------------------------------------------------
(* crates/runtime/src/runtime/types.rs, crates/runtime/src/runtime/execute.rs *)
(* A value is the pair of its variant and its payload; a HashMap<String, _> *)
(* is a function on its keys.  A boxed primitive is told apart by its        *)
(* `instance`, which names the implementation behind the trait object.       *)

\* RuntimeValue, common::Value, TriggerValue, ActionValue and
\* cluster::ParameterValue share the variants they have in common
Number(n) == <<"Number", n>>

Bool(b) == <<"Bool", b>>

String(s) == <<"String", s>>

Event(e) == <<"Event", e>>

\* RuntimeEvent
Trigger(e) == <<"Trigger", e>>

Action(o) == <<"Action", o>>

\* TriggerState
TriggerState(data) == [data |-> data]

TriggerState_default == TriggerState(<<>>)

ExecutionContext(trigger_state) == [trigger_state |-> trigger_state]

ExecutionReport(outputs) == [outputs |-> outputs]

\* ValidatedGraph: what validate returns for `expanded`, with the node
\* parameters and the boundary outputs it clones from the expanded graph
ValidatedGraph(validated, expanded) ==
    [nodes |-> [n \in DOMAIN validated.nodes |->
                  [runtime_id |-> validated.nodes[n].runtime_id,
                   impl_id |-> validated.nodes[n].impl_id,
                   kind |-> validated.nodes[n].kind,
                   inputs |-> validated.nodes[n].inputs,
                   outputs |-> validated.nodes[n].outputs,
                   parameters |-> expanded.parameters[n]]],
     edges |-> validated.edges,
     topo_order |-> validated.topo_order,
     boundary_outputs |-> expanded.boundary_outputs]

map_common_value(v) ==
    CASE v[1] = "Number" -> Number(v[2])
      [] v[1] = "Series" -> <<"Series", v[2]>>
      [] v[1] = "Bool" -> Bool(v[2])

map_to_compute_value(v) ==
    CASE v[1] = "Number" -> Some(Number(v[2]))
      [] v[1] = "Series" -> Some(<<"Series", v[2]>>)
      [] v[1] = "Bool" -> Some(Bool(v[2]))
      [] OTHER -> None

map_to_compute_parameter_value(v) ==
    CASE v[1] = "Int" -> Some(Number(v[2]))
      [] v[1] = "Number" -> Some(Number(v[2]))
      [] v[1] = "Bool" -> Some(Bool(v[2]))
      [] OTHER -> None

map_trigger_value(v) ==
    CASE v[1] = "Event" -> Event(Trigger(v[2]))
      [] OTHER -> v

map_to_trigger_value(v) ==
    CASE v[1] \in {"Number", "Series", "Bool"} -> Some(v)
      [] v[1] = "Event" /\ v[2][1] = "Trigger" -> Some(Event(v[2][2]))
      [] OTHER -> None

\* the parameter maps of the source, trigger and action universes keep every
\* variant
map_to_trigger_parameter_value(v) == Some(v)

map_to_action_parameter_value(v) == Some(v)

map_to_source_parameter_value(v) == Some(v)

map_action_value(v) ==
    CASE v[1] = "Event" -> Event(Action(v[2]))
      [] OTHER -> v

map_to_action_value_emitted_only(v, node, port) ==
    CASE v[1] = "Event" /\ v[2][1] = "Action" -> Ok(Event(v[2][2]))
      [] v[1] = "Event" /\ v[2] = Trigger("Emitted") -> Ok(Event("Attempted"))
      [] v[1] \in {"Number", "Bool", "String"} -> Ok(v)
      [] OTHER -> Err(<<"TypeConversionFailed", node, port>>)

map_to_action_value(v, node, port) ==
    CASE v[1] = "Event" /\ v[2][1] = "Action" -> Ok(Event(v[2][2]))
      [] v[1] = "Event" /\ v[2][1] = "Trigger" -> Ok(Event("Attempted"))
      [] v[1] \in {"Number", "Bool", "String"} -> Ok(v)
      [] OTHER -> Err(<<"TypeConversionFailed", node, port>>)

\* a primitive's answer: the outputs it returns, or a panic inside it
Returned(outputs) == [tag |-> "Returned", outputs |-> outputs]

\* NumberSource::produce
NumberSource_produce(parameters) ==
    IF "value" \in DOMAIN parameters /\ parameters["value"][1] \in {"Number", "Int"}
    THEN Returned([value |-> Number(parameters["value"][2])])
    ELSE Panic

\* Gt::compute
Gt_compute(inputs, parameters) ==
    IF /\ "a" \in DOMAIN inputs /\ inputs["a"][1] = "Number"
       /\ "b" \in DOMAIN inputs /\ inputs["b"][1] = "Number"
    THEN Returned([result |-> Bool(inputs["a"][2] > inputs["b"][2])])
    ELSE Panic

\* EmitIfTrue::evaluate: the outputs and the state slot as it leaves it
EmitIfTrue_evaluate(inputs, parameters, state) ==
    IF "input" \in DOMAIN inputs /\ inputs["input"][1] = "Bool"
    THEN [answer |-> Returned([event |-> Event(IF inputs["input"][2] THEN "Emitted" ELSE "NotEmitted")]),
          state |-> state]
    ELSE [answer |-> Panic, state |-> state]

\* AckAction::execute
AckAction_execute(inputs, parameters) ==
    IF "event" \in DOMAIN inputs /\ inputs["event"][1] = "Event"
    THEN LET accept == IF "accept" \in DOMAIN parameters /\ parameters["accept"][1] = "Bool"
                       THEN parameters["accept"][2] ELSE TRUE
         IN  Returned([outcome |-> Event(IF accept THEN "Filled" ELSE "Rejected")])
    ELSE Panic

\* implementations a caller may register besides the core ones: a trigger that
\* writes the slot `seen` of the state it is handed once its input was true and
\* emits from then on, and a compute that returns no output at all
Latch_evaluate(inputs, parameters, state) ==
    LET seen == "seen" \in DOMAIN state.data
        input == "input" \in DOMAIN inputs /\ inputs["input"] = Bool(TRUE)
    IN  [answer |-> Returned([event |-> Event(IF seen \/ input THEN "Emitted" ELSE "NotEmitted")]),
         state |-> IF input THEN TriggerState(insert(state.data, "seen", Bool(TRUE))) ELSE state]

Mute_compute(inputs, parameters) == Returned(<<>>)

\* SourcePrimitive::produce, ComputePrimitive::compute, TriggerPrimitive::evaluate
\* and ActionPrimitive::execute of a boxed primitive
produce(primitive, parameters) ==
    CASE primitive.instance = "NumberSource" -> NumberSource_produce(parameters)

compute(primitive, inputs, parameters) ==
    CASE primitive.instance = "Gt" -> Gt_compute(inputs, parameters)
      [] primitive.instance = "Mute" -> Mute_compute(inputs, parameters)

evaluate(primitive, inputs, parameters, state) ==
    CASE primitive.instance = "EmitIfTrue" -> EmitIfTrue_evaluate(inputs, parameters, state)
      [] primitive.instance = "Latch" -> Latch_evaluate(inputs, parameters, state)

action_execute(primitive, inputs, parameters) ==
    CASE primitive.instance = "AckAction" -> AckAction_execute(inputs, parameters)

\* the record of one call of a primitive: the node, its kind, what it was
\* handed (for a trigger also the state slot) and what it answered
Invocation(node, inputs, parameters, state, answer) ==
    [node |-> node.runtime_id, kind |-> node.kind, inputs |-> inputs,
     parameters |-> parameters, state |-> state, answer |-> answer]

RECURSIVE collect_edges(_, _, _, _)
\* the loop over the edges of collect_inputs; a later edge into a port
\* replaces the value of an earlier one
collect_edges(target, edges, node_outputs, inputs) ==
    IF edges = <<>> THEN Ok(inputs)
    ELSE LET edge == Head(edges)
         IN  IF edge.to.node_id # target
             THEN collect_edges(target, Tail(edges), node_outputs, inputs)
             ELSE IF edge.from.node_id \notin DOMAIN node_outputs
             THEN Err(<<"MissingOutput", edge.from.node_id, edge.from.port_name>>)
             ELSE IF edge.from.port_name \notin DOMAIN node_outputs[edge.from.node_id]
             THEN Err(<<"MissingOutput", edge.from.node_id, edge.from.port_name>>)
             ELSE collect_edges(target, Tail(edges), node_outputs,
                      insert(inputs, edge.to.port_name,
                             node_outputs[edge.from.node_id][edge.from.port_name]))

collect_inputs(target, input_specs, edges, node_outputs) ==
    LET collected == collect_edges(target, edges, node_outputs, <<>>)
        unfilled == {i \in DOMAIN input_specs :
                        /\ input_specs[i].required
                        /\ collected.tag = "Ok"
                        /\ input_specs[i].name \notin DOMAIN collected.value}
    IN  IF collected.tag = "Err" THEN collected
        ELSE IF unfilled # {}
        THEN Err(<<"MissingOutput", target, input_specs[Min(unfilled)].name>>)
        ELSE collected

\* what the execution of one node leaves: the error or panic it ends the pass
\* with or the outputs to record, the trigger states, and the calls made
Step(tag, value, trigger_state, calls) ==
    [tag |-> tag, value |-> value, trigger_state |-> trigger_state, calls |-> calls]

\* the outcome of a primitive call as a step: the outputs mapped back to
\* RuntimeValue, or the panic
Answered(node, answer, map_value(_), trigger_state, call) ==
    IF answer.tag = "Returned"
    THEN Step("Ok", [k \in DOMAIN answer.outputs |-> map_value(answer.outputs[k])],
              trigger_state, <<call>>)
    ELSE Step("Panic", <<>>, trigger_state, <<call>>)

UnknownPrimitive(node) == Err(<<"UnknownPrimitive", node.impl_id>>)

\* the parameters a mapping turns down, and the mapped parameters
unmapped(values, map_value(_)) == {k \in DOMAIN values : map_value(values[k]) = None}

mapped(values, map_value(_)) == [k \in DOMAIN values |-> unwrap(map_value(values[k]))]

\* execute_source: the steps it can end in (more than one only where the
\* iteration order of a HashMap picks the error)
execute_source(node, inputs, registries_, trigger_state) ==
    IF node.impl_id \notin DOMAIN registries_.sources
    THEN {Step("Err", UnknownPrimitive(node).error, trigger_state, <<>>)}
    ELSE IF unmapped(node.parameters, map_to_source_parameter_value) # {}
    THEN {Step("Err", <<"ParameterTypeConversionFailed", node.runtime_id, k>>, trigger_state, <<>>) :
             k \in unmapped(node.parameters, map_to_source_parameter_value)}
    ELSE LET parameters == mapped(node.parameters, map_to_source_parameter_value)
             answer == produce(registries_.sources[node.impl_id], parameters)
         IN  {Answered(node, answer, map_common_value, trigger_state,
                       Invocation(node, <<>>, parameters, None, answer))}

execute_compute(node, inputs, registries_, trigger_state) ==
    IF node.impl_id \notin DOMAIN registries_.computes
    THEN {Step("Err", UnknownPrimitive(node).error, trigger_state, <<>>)}
    ELSE IF unmapped(inputs, map_to_compute_value) # {}
    THEN {Step("Err", <<"TypeConversionFailed", node.runtime_id, k>>, trigger_state, <<>>) :
             k \in unmapped(inputs, map_to_compute_value)}
    ELSE IF unmapped(node.parameters, map_to_compute_parameter_value) # {}
    THEN {Step("Err", <<"ParameterTypeConversionFailed", node.runtime_id, k>>, trigger_state, <<>>) :
             k \in unmapped(node.parameters, map_to_compute_parameter_value)}
    ELSE LET mapped_inputs == mapped(inputs, map_to_compute_value)
             parameters == mapped(node.parameters, map_to_compute_parameter_value)
             answer == compute(registries_.computes[node.impl_id], mapped_inputs, parameters)
         IN  {Answered(node, answer, map_common_value, trigger_state,
                       Invocation(node, mapped_inputs, parameters, None, answer))}

execute_trigger(node, inputs, registries_, trigger_state) ==
    IF node.impl_id \notin DOMAIN registries_.triggers
    THEN {Step("Err", UnknownPrimitive(node).error, trigger_state, <<>>)}
    ELSE IF unmapped(inputs, map_to_trigger_value) # {}
    THEN {Step("Err", <<"TypeConversionFailed", node.runtime_id, k>>, trigger_state, <<>>) :
             k \in unmapped(inputs, map_to_trigger_value)}
    ELSE IF unmapped(node.parameters, map_to_trigger_parameter_value) # {}
    THEN {Step("Err", <<"ParameterTypeConversionFailed", node.runtime_id, k>>, trigger_state, <<>>) :
             k \in unmapped(node.parameters, map_to_trigger_parameter_value)}
    ELSE LET mapped_inputs == mapped(inputs, map_to_trigger_value)
             parameters == mapped(node.parameters, map_to_trigger_parameter_value)
             node_state == IF node.runtime_id \in DOMAIN trigger_state
                           THEN trigger_state[node.runtime_id]
                           ELSE TriggerState_default
             r == evaluate(registries_.triggers[node.impl_id], mapped_inputs, parameters, node_state)
         IN  {Answered(node, r.answer, map_trigger_value,
                       insert(trigger_state, node.runtime_id, r.state),
                       Invocation(node, mapped_inputs, parameters, Some(node_state), r.answer))}

execute_action(node, inputs, registries_, trigger_state) ==
    LET failed == {k \in DOMAIN inputs : map_to_action_value(inputs[k], node.runtime_id, k).tag = "Err"}
    IN  IF node.impl_id \notin DOMAIN registries_.actions
        THEN {Step("Err", UnknownPrimitive(node).error, trigger_state, <<>>)}
        ELSE IF failed # {}
        THEN {Step("Err", map_to_action_value(inputs[k], node.runtime_id, k).error, trigger_state, <<>>) :
                 k \in failed}
        ELSE IF unmapped(node.parameters, map_to_action_parameter_value) # {}
        THEN {Step("Err", <<"ParameterTypeConversionFailed", node.runtime_id, k>>, trigger_state, <<>>) :
                 k \in unmapped(node.parameters, map_to_action_parameter_value)}
        ELSE LET mapped_inputs == [k \in DOMAIN inputs |->
                                      map_to_action_value(inputs[k], node.runtime_id, k).value]
                 parameters == mapped(node.parameters, map_to_action_parameter_value)
                 answer == action_execute(registries_.actions[node.impl_id], mapped_inputs, parameters)
             IN  {Answered(node, answer, map_action_value, trigger_state,
                           Invocation(node, mapped_inputs, parameters, None, answer))}

RECURSIVE boundary(_, _, _)
\* the loop over boundary_outputs at the end of execute
boundary(boundary_outputs, node_outputs, outputs) ==
    IF boundary_outputs = <<>> THEN Ok(ExecutionReport(outputs))
    ELSE LET out == Head(boundary_outputs)
         IN  IF \/ out.maps_to.node_id \notin DOMAIN node_outputs
                \/ out.maps_to.port_name \notin DOMAIN node_outputs[out.maps_to.node_id]
             THEN Err(<<"MissingOutput", out.maps_to.node_id, out.maps_to.port_name>>)
             ELSE boundary(Tail(boundary_outputs), node_outputs,
                      insert(outputs, out.name,
                             node_outputs[out.maps_to.node_id][out.maps_to.port_name]))

\* what a pass leaves: its result, the calls of primitives it made in order,
\* the trigger states of its working copy when it ended, and the caller's
\* context, graph and registries as the pass leaves them
Pass(outcome, calls, trigger_state, graph_, registries_, ctx_) ==
    [outcome |-> outcome, calls |-> calls, trigger_state |-> trigger_state,
     graph |-> graph_, registries |-> registries_, ctx |-> ctx_]

RECURSIVE execute_nodes(_, _, _, _, _, _, _)
\* the loop over topo_order of execute
execute_nodes(graph_, registries_, ctx_, order, node_outputs, trigger_state, calls) ==
    IF order = <<>>
    THEN {Pass(boundary(graph_.boundary_outputs, node_outputs, <<>>), calls,
               trigger_state, graph_, registries_, ctx_)}
    ELSE LET node == graph_.nodes[Head(order)]
             inputs == collect_inputs(Head(order), node.inputs, graph_.edges, node_outputs)
             steps == IF inputs.tag = "Err" THEN {}
                      ELSE CASE node.kind = "Source" -> execute_source(node, inputs.value, registries_, trigger_state)
                             [] node.kind = "Compute" -> execute_compute(node, inputs.value, registries_, trigger_state)
                             [] node.kind = "Trigger" -> execute_trigger(node, inputs.value, registries_, trigger_state)
                             [] node.kind = "Action" -> execute_action(node, inputs.value, registries_, trigger_state)
         IN  IF inputs.tag = "Err"
             THEN {Pass(inputs, calls, trigger_state, graph_, registries_, ctx_)}
             ELSE UNION {IF step.tag = "Ok"
                         THEN execute_nodes(graph_, registries_, ctx_, Tail(order),
                                  insert(node_outputs, Head(order), step.value),
                                  step.trigger_state, calls \o step.calls)
                         ELSE IF step.tag = "Panic"
                         THEN {Pass(Panic, calls \o step.calls, step.trigger_state,
                                    graph_, registries_, ctx_)}
                         ELSE {Pass(Err(step.value), calls \o step.calls, step.trigger_state,
                                    graph_, registries_, ctx_)} :
                         step \in steps}

\* execute with the trigger states of its working copy written back to the
\* caller's context
execute_writing_back(graph_, registries_, ctx_) ==
    {[p EXCEPT !.ctx = ExecutionContext(p.trigger_state)] :
        p \in execute_nodes(graph_, registries_, ctx_, graph_.topo_order, <<>>,
                            ctx_.trigger_state, <<>>)}

RECURSIVE reversed(_)
reversed(s) == IF s = <<>> THEN <<>> ELSE Append(reversed(Tail(s)), Head(s))

\* execute that walks topo_order from its end
execute_reversed(graph_, registries_, ctx_) ==
    execute_nodes(graph_, registries_, ctx_, reversed(graph_.topo_order), <<>>,
                  ctx_.trigger_state, <<>>)

\* execute: the passes it can make
execute(graph_, registries_, ctx_) ==
    execute_nodes(graph_, registries_, ctx_, graph_.topo_order, <<>>, ctx_.trigger_state, <<>>)

\* the result of run for an outcome of validate
RuntimeError_Validation(error) == Err(<<"Validation", error>>)

RuntimeError_Execution(error) == Err(<<"Execution", error>>)

\* run that executes the nodes in the order of the edges alone when a later
\* check of validate turns the graph down
run_executing_sorted(expanded, catalog, registries_, ctx_) ==
    LET sorted == topological_sort(attach_metadata(expanded, catalog), expanded.edges)
        as_validated == [nodes |-> attach_metadata(expanded, catalog), edges |-> expanded.edges,
                         topo_order |-> sorted.value]
    IN  UNION {IF v.tag = "Panic"
               THEN {Pass(Panic, <<>>, ctx_.trigger_state, expanded, registries_, ctx_)}
               ELSE IF v.tag = "Err"
               THEN {[p EXCEPT !.outcome = RuntimeError_Validation(v.error), !.graph = expanded] :
                       p \in IF v.error[1] \in {"MissingRequiredInput", "ActionNotGated"}
                             THEN execute(ValidatedGraph(as_validated, expanded), registries_, ctx_)
                             ELSE {Pass(RuntimeError_Validation(v.error), <<>>, ctx_.trigger_state, expanded, registries_, ctx_)}}
               ELSE {[p EXCEPT !.outcome = IF p.outcome.tag = "Err"
                                           THEN RuntimeError_Execution(p.outcome.error)
                                           ELSE p.outcome,
                               !.graph = expanded] :
                       p \in execute(ValidatedGraph(v.value, expanded), registries_, ctx_)} :
               v \in validate(expanded, catalog)}

\* run: validate, then execute
run(expanded, catalog, registries_, ctx_) ==
    UNION {IF v.tag = "Panic"
           THEN {Pass(Panic, <<>>, ctx_.trigger_state, expanded, registries_, ctx_)}
           ELSE IF v.tag = "Err"
           THEN {Pass(RuntimeError_Validation(v.error), <<>>, ctx_.trigger_state,
                      expanded, registries_, ctx_)}
           ELSE {[p EXCEPT !.outcome = IF p.outcome.tag = "Err"
                                       THEN RuntimeError_Execution(p.outcome.error)
                                       ELSE p.outcome,
                           !.graph = expanded] :
                   p \in execute(ValidatedGraph(v.value, expanded), registries_, ctx_)} :
           v \in validate(expanded, catalog)}

\* catalog.rs: the manifests of the core primitives of the hello-world graph
number_source_manifest == SourcePrimitiveManifest("number_source", "0.1.0", <<>>, <<OutputSpec("value", "Number")>>, TRUE, FALSE, FALSE)

gt_manifest == ComputePrimitiveManifest("gt", "0.1.0", <<InputSpec("a", "Number"), InputSpec("b", "Number")>>, <<OutputSpec("result", "Bool")>>, TRUE, FALSE)

emit_if_true_manifest == TriggerPrimitiveManifest("emit_if_true", "0.1.0", <<InputSpec("input", "Bool")>>, <<OutputSpec("event", "Event")>>, TRUE, FALSE, FALSE)

ack_action_manifest == ActionPrimitiveManifest("ack_action", "0.1.0", <<InputSpec("event", "Event")>>, <<OutputSpec("outcome", "Event")>>, TRUE, FALSE, FALSE, TRUE)

\* core_registries, for the four primitives above
core_registries ==
    [sources |-> SourceRegistry_register(Registry_new, Primitive(number_source_manifest, "NumberSource")).primitives,
     computes |-> PrimitiveRegistry_register(Registry_new, Primitive(gt_manifest, "Gt")).primitives,
     triggers |-> TriggerRegistry_register(Registry_new, Primitive(emit_if_true_manifest, "EmitIfTrue")).primitives,
     actions |-> ActionRegistry_register(Registry_new, Primitive(ack_action_manifest, "AckAction")).primitives]

\* register_source, register_compute, register_trigger, register_action: the
\* metadata of a manifest; every declared input of the four is required
metadata_of(manifest) ==
    PrimitiveMetadata(manifest.kind,
        IF manifest.kind = "Source" THEN <<>>
        ELSE [i \in DOMAIN manifest.inputs |->
                 InputMetadata(manifest.inputs[i].name, manifest.inputs[i].value_type, TRUE)],
        [name \in {manifest.outputs[i].name : i \in DOMAIN manifest.outputs} |->
            (CHOOSE o \in {manifest.outputs[i] : i \in DOMAIN manifest.outputs} : o.name = name).value_type])

\* build_core_catalog, for the four primitives above
build_core_catalog ==
    [number_source |-> metadata_of(number_source_manifest),
     gt |-> metadata_of(gt_manifest),
     emit_if_true |-> metadata_of(emit_if_true_manifest),
     ack_action |-> metadata_of(ack_action_manifest)]

\* a call of run on the graph, registries and context at hand
Run ==
    /\ Len(passes) < MaxPasses
    /\ \E p \in run(graph, build_core_catalog, registries, ctx) :
          /\ passes' = Append(passes, p)
          /\ result' = Some(p.outcome)
          /\ graph' = p.graph
          /\ registries' = p.registries
          /\ ctx' = p.ctx
    /\ UNCHANGED <<supervisor, bundle, phase, replayed, handle, runs, root, loader>>

-----------------------------------------------------------------------------
(* Inputs *)

Option(S) == {None} \cup {Some(x) : x \in S}

EventTimes == 0 .. DurationMax

Events(ids, times) == {ExternalEvent(id, k, at) : id \in ids, k \in ExternalEventKind, at \in times}

SeqsUpTo(S, n) == UNION {[1 .. k -> S] : k \in 0 .. n}

EmptyGraph == [nodes |-> <<>>, edges |-> <<>>]

InitSup(constraintSet, runtimeSet) ==
    /\ \E c \in constraintSet, rt \in runtimeSet :
          /\ supervisor = CapturingSession_new(c, rt).supervisor
          /\ bundle = CapturingSession_new(c, rt).bundle
          /\ handle = rt
    /\ phase = "capturing"
    /\ replayed = None
    /\ runs = <<>>
    /\ graph = EmptyGraph
    /\ result = None
    /\ root = None
    /\ loader = <<>>
    /\ registries = Registries_new
    /\ ctx = ExecutionContext(<<>>)
    /\ passes = <<>>

\* the concurrency guard unset, 0 or 1; the rate guard unset, half set, or set
\* with every limit in 0..2 and every window; a runtime that always completes
RateSettings ==
    {<<None, None>>, <<Some(1), None>>, <<None, Some(1)>>}
    \cup {<<Some(mpw), Some(rw)>> : mpw \in 0 .. 2, rw \in EventTimes}

PolicyConstraints ==
    {Constraints(mif, rate[1], rate[2], None, 0) :
        mif \in Option(0 .. 1), rate \in RateSettings}

InitPolicy == InitSup(PolicyConstraints, {FaultRuntimeHandle_new(Completed)})

PolicyEvents == Events(EventId, EventTimes)

NextPolicy == \E e \in PolicyEvents : CapturingSession_on_event(e)

SpecPolicy == InitPolicy /\ [][NextPolicy]_vars

\* the rate guard set with max_per_window >= 1
RateConstraints ==
    {Constraints(mif, Some(mpw), Some(rw), None, 0) :
        mif \in Option(0 .. 1), mpw \in 1 .. 2, rw \in EventTimes}

InitRate == InitSup(RateConstraints, {FaultRuntimeHandle_new(Completed)})

SpecRate == InitRate /\ [][NextPolicy]_vars

\* the rate guard alone, every limit in 0..2 and every window of at least 1
WindowConstraints ==
    {Constraints(None, Some(mpw), Some(rw), None, 0) :
        mpw \in 0 .. 2, rw \in 1 .. DurationMax}

InitWindow == InitSup(WindowConstraints, {FaultRuntimeHandle_new(Completed)})

SpecWindow == InitWindow /\ [][NextPolicy]_vars

\* no guards; every deadline, retry budget, fault schedule and default
RetryConstraints ==
    {Constraints(None, None, None, dl, mr) :
        dl \in Option(0 .. 1), mr \in 0 .. MaxRetries}

RetryRuntimes ==
    {push_outcomes(FaultRuntimeHandle_new(default), "e1", outcomes) :
        default \in RunTermination, outcomes \in SeqsUpTo(RunTermination, MaxSched)}

InitRetry == InitSup(RetryConstraints, RetryRuntimes)

RetryEvents == Events({"e1"}, {0})

NextRetry == \E e \in RetryEvents : CapturingSession_on_event(e)

SpecRetry == InitRetry /\ [][NextRetry]_vars

\* guards, deadlines and retries together, with faults queued for one event id
CaptureConstraints ==
    {Constraints(mif, rate[1], rate[2], dl, mr) :
        mif \in {None, Some(0)},
        rate \in {<<None, None>>, <<Some(1), Some(2)>>, <<Some(0), Some(1)>>},
        dl \in {None, Some(0)},
        mr \in {0, MaxRetries}}

CaptureRuntimes ==
    {push_outcomes(FaultRuntimeHandle_new(default), "e1", outcomes) :
        default \in {Completed, TimedOut},
        outcomes \in SeqsUpTo({TimedOut, Failed("Cancelled")}, MaxSched)}

InitCapture == InitSup(CaptureConstraints, CaptureRuntimes)

CaptureEvents == Events(EventId, {0, DurationMax})

NextCapture ==
    \/ \E e \in CaptureEvents : CapturingSession_on_event(e)
    \/ into_bundle
    \/ ReplayCapture

SpecCapture == InitCapture /\ [][NextCapture]_vars

NextReplay ==
    \/ \E e \in CaptureEvents : CapturingSession_on_event(e)
    \/ into_bundle
    \/ Replay

SpecReplay == InitCapture /\ [][NextReplay]_vars

\* graphs of up to MaxNodes nodes; an edge may name a node the graph lacks
NodeIds == 1 .. MaxNodes

Impls == {"src", "cmp", "trg", "act", "trgN", "actN", "nope"}

NodeMaps == UNION {[1 .. k -> Impls] : k \in 1 .. MaxNodes}

NodeEdges ==
    {ExpandedEdge(NodePort(from, "out"), NodePort(to, "in")) : from, to \in NodeIds}

ExternalEdges ==
    {ExpandedEdge(ExternalInput("x"), NodePort(1, "in")),
     ExpandedEdge(NodePort(1, "out"), ExternalInput("y"))}

\* edges naming a port that no primitive of the catalog declares
PortEdges ==
    {ExpandedEdge(NodePort(1, "zz"), NodePort(MaxNodes, "in")),
     ExpandedEdge(NodePort(1, "out"), NodePort(MaxNodes, "zz"))}

\* up to MaxEdges edges between nodes, or an external edge or an edge with an
\* undeclared port before or after at most one of them
EdgeLists ==
    SeqsUpTo(NodeEdges, MaxEdges)
    \cup {<<x>> \o rest : x \in ExternalEdges \cup PortEdges, rest \in SeqsUpTo(NodeEdges, 1)}
    \cup {rest \o <<x>> : x \in ExternalEdges \cup PortEdges, rest \in SeqsUpTo(NodeEdges, 1)}

Graphs == {ExpandedGraph(nodes, edges) : nodes \in NodeMaps, edges \in EdgeLists}

InitValidate ==
    /\ graph \in Graphs
    /\ result = None
    /\ root = None
    /\ loader = <<>>
    /\ registries = Registries_new
    /\ ctx = ExecutionContext(<<>>)
    /\ passes = <<>>
    /\ supervisor = CapturingSession_new(Constraints(None, None, None, None, 0),
                                         FaultRuntimeHandle_new(Completed)).supervisor
    /\ bundle = CapturingSession_new(Constraints(None, None, None, None, 0),
                                     FaultRuntimeHandle_new(Completed)).bundle
    /\ handle = FaultRuntimeHandle_new(Completed)
    /\ phase = "capturing"
    /\ replayed = None
    /\ runs = <<>>

NextValidate == Validate

SpecValidate == InitValidate /\ [][NextValidate]_vars

\* graphs with boundary ports, as expand hands them to infer_signature; a
\* boundary output may name a node the graph lacks or an undeclared output
InferImpls == {"src", "srcB", "trg", "act", "nope"}

InferNodeMaps == UNION {[1 .. k -> InferImpls] : k \in 1 .. MaxNodes}

InferEdgeLists ==
    {<<>>, <<ExpandedEdge(NodePort(1, "out"), NodePort(MaxNodes, "in"))>>}

BoundaryInputLists ==
    {<<>>, <<InputPortSpec("in", GraphInputPlaceholder("x", "Number", TRUE))>>}

BoundaryOutputRefs == {OutputRef(n, p) : n \in NodeIds, p \in {"out", "zz"}}

BoundaryOutputLists ==
    UNION {{[i \in 1 .. k |-> OutputPortSpec(i, refs[i])] : refs \in [1 .. k -> BoundaryOutputRefs]} :
           k \in 0 .. MaxOutputs}

BoundaryGraphs ==
    {[nodes |-> nodes, edges |-> edges, boundary_inputs |-> ins, boundary_outputs |-> outs] :
        nodes \in InferNodeMaps, edges \in InferEdgeLists,
        ins \in BoundaryInputLists, outs \in BoundaryOutputLists}

InitInfer ==
    /\ graph \in BoundaryGraphs
    /\ result = None
    /\ root = None
    /\ loader = <<>>
    /\ registries = Registries_new
    /\ ctx = ExecutionContext(<<>>)
    /\ passes = <<>>
    /\ supervisor = CapturingSession_new(Constraints(None, None, None, None, 0),
                                         FaultRuntimeHandle_new(Completed)).supervisor
    /\ bundle = CapturingSession_new(Constraints(None, None, None, None, 0),
                                     FaultRuntimeHandle_new(Completed)).bundle
    /\ handle = FaultRuntimeHandle_new(Completed)
    /\ phase = "capturing"
    /\ replayed = None
    /\ runs = <<>>

NextInfer == InferSignature

SpecInfer == InitInfer /\ [][NextInfer]_vars

\* root clusters of two Impl nodes that declare a signature: declared ports
\* may claim more than is inferred, or have names the cluster lacks; an output
\* port may be duplicated or name a node that is not there, an edge may
\* target a node that is not there
SignedNodeMaps ==
    {[id \in {"a", "b"} |-> NodeInstance(id, Impl(IF id = "a" THEN impl ELSE "act"))] :
        impl \in {"src", "act", "nope"}}

SignedOutputPorts ==
    {<<>>,
     <<OutputPortSpec("o1", OutputRef("a", "out"))>>,
     <<OutputPortSpec("o1", OutputRef("a", "out")), OutputPortSpec("o2", OutputRef("b", "out"))>>,
     <<OutputPortSpec("o1", OutputRef("b", "out")), OutputPortSpec("o2", OutputRef("a", "out"))>>,
     <<OutputPortSpec("o1", OutputRef("a", "out")), OutputPortSpec("o1", OutputRef("b", "out"))>>,
     <<OutputPortSpec("o1", OutputRef("q", "out"))>>}

SignedEdgeLists ==
    {<<>>, <<Edge(OutputRef("a", "out"), InputRef("q", "in"))>>}

DeclaredOutputs ==
    SeqsUpTo({PortSpec(name, "Number", w) : name \in {"o1", "o2", "zz"}, w \in BOOLEAN},
             MaxOutputs)

DeclaredInputs ==
    SeqsUpTo({PortSpec(name, "Number", w) : name \in {"in", "zz"}, w \in BOOLEAN}, 1)

DeclaredSignatures ==
    {Signature("ComputeLike", ins, outs, FALSE, FALSE) :
        ins \in DeclaredInputs, outs \in DeclaredOutputs}

SignedRoots ==
    {ClusterDefinition("R", nodes, edges, ins, outs, sig) :
        nodes \in SignedNodeMaps, edges \in SignedEdgeLists, ins \in BoundaryInputLists,
        outs \in SignedOutputPorts, sig \in Option(DeclaredSignatures)}

InitCluster(roots, loaders) ==
    /\ root \in {Some(r) : r \in roots}
    /\ loader \in loaders
    /\ registries = Registries_new
    /\ ctx = ExecutionContext(<<>>)
    /\ passes = <<>>
    /\ graph = EmptyGraph
    /\ result = None
    /\ supervisor = CapturingSession_new(Constraints(None, None, None, None, 0),
                                         FaultRuntimeHandle_new(Completed)).supervisor
    /\ bundle = CapturingSession_new(Constraints(None, None, None, None, 0),
                                     FaultRuntimeHandle_new(Completed)).bundle
    /\ handle = FaultRuntimeHandle_new(Completed)
    /\ phase = "capturing"
    /\ replayed = None
    /\ runs = <<>>

InitSignature == InitCluster(SignedRoots, {<<>>})

NextExpand == Expand

SpecSignature == InitSignature /\ [][NextExpand]_vars

\* a root R with an Impl node a and a Cluster node c that refers to the
\* nested cluster N or to a cluster the loader lacks; N has the Impl nodes d
\* and e and may read its placeholder x once, several times or never.  Root
\* edges may wire c's input port (once or twice, from a or from the root's own
\* placeholder x), target a node that is not there or target the root's
\* placeholder
NestedEdges ==
    {Edge(OutputRef("x", "out"), InputRef("d", "in")),
     Edge(OutputRef("x", "out"), InputRef("e", "in")),
     Edge(OutputRef("d", "out"), InputRef("e", "in"))}

NestedInputPorts ==
    {<<>>, <<InputPortSpec("in", GraphInputPlaceholder("x", "Number", TRUE))>>}

NestedClusters ==
    {ClusterDefinition("N",
         [id \in {"d", "e"} |-> NodeInstance(id, Impl(IF id = "d" THEN "cmp" ELSE "trg"))],
         edges, ins, <<OutputPortSpec("out", OutputRef("e", "out"))>>, None) :
        edges \in SeqsUpTo(NestedEdges, MaxEdges), ins \in NestedInputPorts}

Loaders == {[id \in {"N"} |-> n] : n \in NestedClusters}

RootEdges ==
    {Edge(OutputRef("a", "out"), InputRef("c", "in")),
     Edge(OutputRef("x", "out"), InputRef("c", "in")),
     Edge(OutputRef("a", "out"), InputRef("q", "in")),
     Edge(OutputRef("a", "out"), InputRef("x", "in"))}

RootNodeMaps ==
    {[id \in {"a", "c"} |-> NodeInstance(id, IF id = "a" THEN Impl("src") ELSE Cluster(cid))] :
        cid \in {"N", "M"}}

Roots ==
    {ClusterDefinition("R", nodes, edges, ins, <<>>, None) :
        nodes \in RootNodeMaps, edges \in SeqsUpTo(RootEdges, MaxEdges),
        ins \in BoundaryInputLists}

InitExpand == InitCluster(Roots, Loaders)

SpecExpand == InitExpand /\ [][NextExpand]_vars

\* Parameters: a root R with the Impl node a and the Cluster node c that
\* refers to N; N has the Impl node d and the Cluster node m that refers to M;
\* M has the Impl node e.  Each Impl node binds `k` or not, to a literal or to
\* a parameter of its cluster; c binds `p` and m binds `q` or not, to a
\* literal or to a parameter of the level above; N declares p with a default
\* or declares nothing
ImplBindings(value, exposed) ==
    {<<>>, [k |-> Literal(Number(value))]} \cup {[k |-> Exposed(p)] : p \in exposed}

ClusterBindings(name, value, exposed) ==
    {<<>>, [x \in {name} |-> Literal(Number(value))]}
    \cup {[x \in {name} |-> Exposed(p)] : p \in exposed}

ParameterLists ==
    {<<>>, <<ParameterSpec("p", "Number", Some(Number(9)), FALSE)>>}

ParameterLoaders ==
    {[id \in {"N", "M"} |->
        IF id = "N"
        THEN with_parameters(
                 ClusterDefinition("N",
                     [n \in {"d", "m"} |->
                         IF n = "d" THEN with_bindings(NodeInstance("d", Impl("cmp")), d)
                         ELSE with_bindings(NodeInstance("m", Cluster("M")), m)],
                     <<>>, <<>>, <<>>, None),
                 parameters)
        ELSE ClusterDefinition("M",
                 [n \in {"e"} |-> with_bindings(NodeInstance("e", Impl("trg")), e)],
                 <<>>, <<>>, <<>>, None)] :
        d \in ImplBindings(1, {"p", "q"}), m \in ClusterBindings("q", 3, {"p"}),
        e \in ImplBindings(4, {"p", "q"}), parameters \in ParameterLists}

ParameterRoots ==
    {ClusterDefinition("R",
         [n \in {"a", "c"} |->
             IF n = "a" THEN with_bindings(NodeInstance("a", Impl("src")), a)
             ELSE with_bindings(NodeInstance("c", Cluster("N")), c)],
         <<>>, <<>>, <<>>, None) :
        a \in ImplBindings(5, {"p"}), c \in ClusterBindings("p", 2, {"p"})}

InitParameters == InitCluster(ParameterRoots, ParameterLoaders)

SpecParameters == InitParameters /\ [][NextExpand]_vars

\* Cycles: a root R whose Cluster node c refers to A or to B; in the loader A
\* and B each have an Impl node and may have a Cluster node that refers to A,
\* to B or to a cluster the loader lacks
CyclicClusters(id, impl_id) ==
    {ClusterDefinition(id, [n \in {"d"} |-> NodeInstance("d", Impl(impl_id))],
                       edges, <<>>, <<>>, None) : edges \in {<<>>}}
    \cup {ClusterDefinition(id,
              [n \in {"d", "n"} |->
                  IF n = "d" THEN NodeInstance("d", Impl(impl_id))
                  ELSE NodeInstance("n", Cluster(cid))],
              edges, <<>>, <<>>, None) :
            cid \in {"A", "B", "M"},
            edges \in {<<>>, <<Edge(OutputRef("d", "out"), InputRef("n", "in"))>>}}

CyclicLoaders ==
    {[id \in {"A", "B"} |-> IF id = "A" THEN a ELSE b] :
        a \in CyclicClusters("A", "cmp"), b \in CyclicClusters("B", "trg")}

CyclicRoots ==
    {ClusterDefinition("R",
         [n \in {"a", "c"} |->
             IF n = "a" THEN NodeInstance("a", Impl("src")) ELSE NodeInstance("c", Cluster(cid))],
         edges, <<>>, <<>>, None) :
        cid \in {"A", "B"},
        edges \in {<<>>, <<Edge(OutputRef("a", "out"), InputRef("c", "in"))>>}}

InitCycle == InitCluster(CyclicRoots, CyclicLoaders)

SpecCycle == InitCycle /\ [][NextExpand]_vars

\* Shared ids: a root R with the Impl nodes a and b and the Cluster node c
\* that refers to N; N has the Impl node e behind its output port `out` and
\* an Impl node that is called d, or a as the root's own node is.  The edges
\* of the root all end in b and start at a, at c's port, or at the ids d and
\* e that the root has no node for; an output port of the root may name them
CaptureClusters ==
    {ClusterDefinition("N",
         [n \in {id, "e"} |-> NodeInstance(n, Impl(IF n = "e" THEN "trg" ELSE "cmp"))],
         edges, <<>>, <<OutputPortSpec("out", OutputRef("e", "out"))>>, None) :
        id \in {"a", "d"}, edges \in {<<>>, <<Edge(OutputRef("e", "out"), InputRef("e", "in"))>>}}

CaptureLoaders == {[id \in {"N"} |-> n] : n \in CaptureClusters}

CaptureEdges ==
    {Edge(OutputRef(id, "out"), InputRef("b", "in")) : id \in {"a", "c", "d", "e"}}

CaptureOutputPorts ==
    {<<>>} \cup {<<OutputPortSpec("o", OutputRef(id, "out"))>> : id \in {"a", "b", "c", "d"}}

CaptureRoots ==
    {ClusterDefinition("R",
         [n \in {"a", "b", "c"} |->
             IF n = "c" THEN NodeInstance("c", Cluster("N"))
             ELSE NodeInstance(n, Impl(IF n = "a" THEN "src" ELSE "act"))],
         edges, <<>>, outs, None) :
        edges \in SeqsUpTo(CaptureEdges, MaxEdges), outs \in CaptureOutputPorts}

InitSharedIds == InitCluster(CaptureRoots, CaptureLoaders)

SpecSharedIds == InitSharedIds /\ [][NextExpand]_vars

\* Registries: two ids; the same id comes as two objects of version v1 and one
\* of version v2; next to the manifests every rule accepts, one manifest per
\* rule that rejects it, all under the id p
RegistryIds == {"p", "q"}

Instances == {<<"v1", 1>>, <<"v1", 2>>, <<"v2", 3>>}

NumberIn == <<InputSpec("in", "Number")>>

EventIn == <<InputSpec("event", "Event")>>

NumberOut == <<OutputSpec("out", "Number")>>

EventOut == <<OutputSpec("event", "Event")>>

OutcomeOut == <<OutputSpec("outcome", "Event")>>

SourceManifests(id, version) ==
    {SourcePrimitiveManifest(id, version, <<>>, NumberOut, TRUE, FALSE, FALSE)} \cup
    (IF id # "p" THEN {} ELSE
     {SourcePrimitiveManifest(id, version, NumberIn, NumberOut, TRUE, FALSE, FALSE),
      SourcePrimitiveManifest(id, version, <<>>, NumberOut, TRUE, FALSE, TRUE),
      SourcePrimitiveManifest(id, version, <<>>, NumberOut, FALSE, FALSE, FALSE),
      SourcePrimitiveManifest(id, version, <<>>, NumberOut, TRUE, TRUE, FALSE),
      SourcePrimitiveManifest(id, version, <<>>, <<>>, TRUE, FALSE, FALSE)})

ComputeManifests(id, version) ==
    {ComputePrimitiveManifest(id, version, NumberIn, NumberOut, TRUE, FALSE)} \cup
    (IF id # "p" THEN {} ELSE
     {ComputePrimitiveManifest(id, version, NumberIn, NumberOut, TRUE, TRUE),
      ComputePrimitiveManifest(id, version, NumberIn, NumberOut, FALSE, FALSE),
      ComputePrimitiveManifest(id, version, <<>>, NumberOut, TRUE, FALSE)})

TriggerManifests(id, version) ==
    {TriggerPrimitiveManifest(id, version, NumberIn, EventOut, TRUE, FALSE, FALSE)} \cup
    (IF id # "p" THEN {} ELSE
     {TriggerPrimitiveManifest(id, version, NumberIn, EventOut, TRUE, FALSE, TRUE),
      TriggerPrimitiveManifest(id, version, NumberIn, EventOut, FALSE, FALSE, FALSE),
      TriggerPrimitiveManifest(id, version, NumberIn, EventOut, TRUE, TRUE, FALSE),
      TriggerPrimitiveManifest(id, version, NumberIn, <<>>, TRUE, FALSE, FALSE),
      TriggerPrimitiveManifest(id, version, NumberIn, EventOut \o EventOut, TRUE, FALSE, FALSE),
      TriggerPrimitiveManifest(id, version, NumberIn, NumberOut, TRUE, FALSE, FALSE)})

ActionManifests(id, version) ==
    {ActionPrimitiveManifest(id, version, EventIn, OutcomeOut, TRUE, FALSE, FALSE, TRUE)} \cup
    (IF id # "p" THEN {} ELSE
     {ActionPrimitiveManifest(id, version, EventIn \o EventIn, OutcomeOut, TRUE, FALSE, FALSE, TRUE),
      ActionPrimitiveManifest(id, version, EventIn \o NumberIn, OutcomeOut, TRUE, FALSE, FALSE, TRUE),
      ActionPrimitiveManifest(id, version, EventIn, OutcomeOut, TRUE, FALSE, FALSE, FALSE),
      ActionPrimitiveManifest(id, version, EventIn, OutcomeOut, TRUE, TRUE, FALSE, TRUE),
      ActionPrimitiveManifest(id, version, EventIn, OutcomeOut, FALSE, FALSE, FALSE, TRUE),
      ActionPrimitiveManifest(id, version, EventIn, OutcomeOut, TRUE, FALSE, TRUE, TRUE),
      ActionPrimitiveManifest(id, version, <<>>, OutcomeOut, TRUE, FALSE, FALSE, TRUE),
      ActionPrimitiveManifest(id, version, NumberIn, OutcomeOut, TRUE, FALSE, FALSE, TRUE),
      ActionPrimitiveManifest(id, version, EventIn, <<>>, TRUE, FALSE, FALSE, TRUE),
      ActionPrimitiveManifest(id, version, EventIn, OutcomeOut \o OutcomeOut, TRUE, FALSE, FALSE, TRUE),
      ActionPrimitiveManifest(id, version, EventIn, EventOut, TRUE, FALSE, FALSE, TRUE),
      ActionPrimitiveManifest(id, version, EventIn, <<OutputSpec("outcome", "Number")>>, TRUE, FALSE, FALSE, TRUE)})

SourcePrimitives == UNION {{Primitive(m, i[2]) : m \in SourceManifests(id, i[1])} : id \in RegistryIds, i \in Instances}

ComputePrimitives == UNION {{Primitive(m, i[2]) : m \in ComputeManifests(id, i[1])} : id \in RegistryIds, i \in Instances}

TriggerPrimitives == UNION {{Primitive(m, i[2]) : m \in TriggerManifests(id, i[1])} : id \in RegistryIds, i \in Instances}

ActionPrimitives == UNION {{Primitive(m, i[2]) : m \in ActionManifests(id, i[1])} : id \in RegistryIds, i \in Instances}

InitRegistry ==
    /\ registries = Registries_new
    /\ ctx = ExecutionContext(<<>>)
    /\ passes = <<>>
    /\ result = None
    /\ root = None
    /\ loader = <<>>
    /\ graph = EmptyGraph
    /\ supervisor = CapturingSession_new(Constraints(None, None, None, None, 0),
                                         FaultRuntimeHandle_new(Completed)).supervisor
    /\ bundle = CapturingSession_new(Constraints(None, None, None, None, 0),
                                     FaultRuntimeHandle_new(Completed)).bundle
    /\ handle = FaultRuntimeHandle_new(Completed)
    /\ phase = "capturing"
    /\ replayed = None
    /\ runs = <<>>

NextRegistry ==
    \/ \E primitive \in SourcePrimitives : RegisterSource(primitive)
    \/ \E primitive \in ComputePrimitives : RegisterCompute(primitive)
    \/ \E primitive \in TriggerPrimitives : RegisterTrigger(primitive)
    \/ \E primitive \in ActionPrimitives : RegisterAction(primitive)

SpecRegistry == InitRegistry /\ [][NextRegistry]_vars

\* run: the hello-world graph (1 = act, 2 = emit, 3 = gt1, 4 = src_a,
\* 5 = src_b, numbered as their ids are ordered) and graphs that differ from it
\* in one respect, over registries that agree with the catalog or not
HelloNodes == <<"ack_action", "emit_if_true", "gt", "number_source", "number_source">>

HelloEdges ==
    <<ExpandedEdge(NodePort(4, "value"), NodePort(3, "a")),
      ExpandedEdge(NodePort(5, "value"), NodePort(3, "b")),
      ExpandedEdge(NodePort(3, "result"), NodePort(2, "input")),
      ExpandedEdge(NodePort(2, "event"), NodePort(1, "event"))>>

Without(s, k) == [i \in 1 .. Len(s) - 1 |-> IF i < k THEN s[i] ELSE s[i + 1]]

RunEdgeLists ==
    {HelloEdges,
     <<HelloEdges[4], HelloEdges[3], HelloEdges[2], HelloEdges[1]>>,
     HelloEdges \o <<HelloEdges[2]>>,
     HelloEdges \o <<ExpandedEdge(NodePort(3, "result"), NodePort(1, "event"))>>,
     HelloEdges \o <<ExpandedEdge(NodePort(4, "value"), NodePort(2, "input"))>>}
    \cup {Without(HelloEdges, k) : k \in 1 .. 4}

RunNodeMaps == {HelloNodes, [HelloNodes EXCEPT ![1] = "nope"], [HelloNodes EXCEPT ![2] = "gt"]}

SourceParameters == {<<>>} \cup {[value |-> Number(v)] : v \in 1 .. MaxValue}

AckParameters == {<<>>, [accept |-> Bool(TRUE)], [accept |-> Bool(FALSE)]}

GtParameters == {<<>>, [label |-> String("x")]}

RunParameters ==
    {<<ack, <<>>, gt, a, b>> : ack \in AckParameters, gt \in GtParameters,
                               a \in SourceParameters, b \in SourceParameters \ {<<>>}}

RunBoundaryOutputs ==
    {<<OutputPortSpec("action_outcome", OutputRef(1, "outcome"))>>,
     <<OutputPortSpec("action_outcome", OutputRef(1, "outcome")),
       OutputPortSpec("gone", OutputRef(3, "gone"))>>}

RunGraphs ==
    {[nodes |-> nodes, edges |-> edges, parameters |-> parameters,
      boundary_outputs |-> boundary_outputs] :
        nodes \in RunNodeMaps, edges \in RunEdgeLists, parameters \in RunParameters,
        boundary_outputs \in RunBoundaryOutputs}

RunRegistries ==
    {core_registries,
     [core_registries EXCEPT !.triggers = TriggerRegistry_register(Registry_new, Primitive(emit_if_true_manifest, "Latch")).primitives],
     [core_registries EXCEPT !.computes = PrimitiveRegistry_register(Registry_new, Primitive(gt_manifest, "Mute")).primitives],
     [core_registries EXCEPT !.actions = Registry_new]}

RunContexts ==
    {ExecutionContext(<<>>),
     ExecutionContext([n \in {2} |-> TriggerState([seen |-> Bool(TRUE)])])}

InitRun ==
    /\ graph \in RunGraphs
    /\ registries \in RunRegistries
    /\ ctx \in RunContexts
    /\ passes = <<>>
    /\ result = None
    /\ root = None
    /\ loader = <<>>
    /\ supervisor = CapturingSession_new(Constraints(None, None, None, None, 0),
                                         FaultRuntimeHandle_new(Completed)).supervisor
    /\ bundle = CapturingSession_new(Constraints(None, None, None, None, 0),
                                     FaultRuntimeHandle_new(Completed)).bundle
    /\ handle = FaultRuntimeHandle_new(Completed)
    /\ phase = "capturing"
    /\ replayed = None
    /\ runs = <<>>

NextRun == Run

SpecRun == InitRun /\ [][NextRun]_vars

-----------------------------------------------------------------------------
(* Properties of the supervisor's guards and clock, checked under SpecPolicy *)

RECURSIVE MaxAt(_, _)
\* the largest of zero and the times of the first k captured events
MaxAt(event_records, k) ==
    IF k = 0 THEN 0 ELSE Max(event_records[k].event_time, MaxAt(event_records, k - 1))

RateSet == is_some(supervisor.constraints.max_per_window)
           /\ is_some(supervisor.constraints.rate_window)

\* the episodes logged Invoke before episode k whose admission time is less
\* than window w before time t
AdmittedWithin(k, t, w) ==
    {j \in 1 .. k - 1 : /\ supervisor.decision_log[j].decision = "Invoke"
                        /\ t - supervisor.episodes[j].now < w}

\* C3: with max_per_window = m and rate_window = w set (m = 0 included), the
\* rate queue never holds more than m entries, an event arriving while m
\* admitted invocations are younger than w is deferred without a runtime call,
\* and so no Invoke is logged with m earlier Invokes less than w before it.
C3_RateGuardBound ==
    RateSet =>
        LET m == unwrap(supervisor.constraints.max_per_window)
            w == unwrap(supervisor.constraints.rate_window)
        IN  /\ Len(supervisor.recent_invocations) <= m
            /\ \A k \in 1 .. Len(supervisor.decision_log) :
                  Cardinality(AdmittedWithin(k, supervisor.episodes[k].now, w)) >= m
                  => /\ supervisor.decision_log[k].decision = "Defer"
                     /\ supervisor.episodes[k].calls = <<>>

\* the same bound for m >= 1 only (what the code does keep)
C3_RateGuardBoundPositive ==
    (RateSet /\ unwrap(supervisor.constraints.max_per_window) >= 1
      ) => C3_RateGuardBound

\* C5: an event that finds max_in_flight = Some(m) and in_flight >= m gets
\* exactly one log entry: Defer, schedule_at = Some(now) with now the clock
\* after advancing to the event, Aborted, retry_count 0, and no runtime call.
C5_ConcurrencyGuard ==
    /\ Len(supervisor.decision_log) = Len(bundle.events)
    /\ \A k \in 1 .. Len(supervisor.decision_log) :
          (/\ is_some(supervisor.constraints.max_in_flight)
           /\ supervisor.episodes[k].in_flight
                 >= unwrap(supervisor.constraints.max_in_flight))
          => /\ bundle.decisions[k].event_id = bundle.events[k].event_id
             /\ bundle.decisions[k].decision = "Defer"
             /\ bundle.decisions[k].schedule_at = Some(MaxAt(bundle.events, k))
             /\ bundle.decisions[k].termination = Aborted
             /\ bundle.decisions[k].retry_count = 0
             /\ supervisor.episodes[k].calls = <<>>

\* C5 witness: the guard deferred an event that arrived behind the clock
C5_Witness ==
    \E k \in 1 .. Len(bundle.decisions) :
        /\ supervisor.constraints.max_in_flight = Some(0)
        /\ supervisor.episodes[k].guard = "concurrency"
        /\ bundle.decisions[k].decision = "Defer"
        /\ bundle.events[k].event_time < supervisor.episodes[k].now

\* C6: the clock is the maximum of zero and the `at` of every event seen, and
\* the `now` each decision used is the clock after advancing, never an earlier
\* event time.
C6_DeterministicClock ==
    /\ supervisor.clock = MaxAt(bundle.events, Len(bundle.events))
    /\ \A k \in 1 .. Len(supervisor.episodes) :
          /\ supervisor.episodes[k].now = MaxAt(bundle.events, k)
          /\ supervisor.episodes[k].guard = "concurrency"
             => bundle.decisions[k].schedule_at = Some(MaxAt(bundle.events, k))

\* C6 witness: an event earlier than the clock was decided at the clock value
C6_Witness ==
    \E k \in 1 .. Len(supervisor.episodes) :
        /\ bundle.events[k].event_time < supervisor.episodes[k].now
        /\ supervisor.clock = supervisor.episodes[k].now
        /\ supervisor.clock > 0

LastRateDeferred ==
    /\ supervisor.episodes # <<>>
    /\ Last(supervisor.episodes).guard = "rate"

\* C7 as claimed: a rate-limit Defer is logged with schedule_at =
\* now + (rate_window - (now - front)) = front + rate_window, front being the
\* oldest entry left in the queue, and that time is strictly later than now.
C7_DeferTimeAsClaimed ==
    LastRateDeferred =>
        LET now == Last(supervisor.episodes).now
            front == Head(supervisor.recent_invocations)
            w == unwrap(supervisor.constraints.rate_window)
        IN  /\ Last(bundle.decisions).schedule_at = Some(now + (w - (now - front)))
            /\ now + (w - (now - front)) = front + w
            /\ unwrap(Last(bundle.decisions).schedule_at) > now

\* C7 amended: schedule_at is front + rate_window capped at Duration::MAX by
\* the saturating addition; it is strictly later than now unless now is
\* already Duration::MAX, and never earlier than now.
C7_DeferTimeSaturating ==
    LastRateDeferred =>
        LET now == Last(supervisor.episodes).now
            front == Head(supervisor.recent_invocations)
            w == unwrap(supervisor.constraints.rate_window)
            at == unwrap(Last(bundle.decisions).schedule_at)
        IN  /\ Last(bundle.decisions).decision = "Defer"
            /\ front <= now /\ now - front < w
            /\ at = (IF front + w > DurationMax THEN DurationMax ELSE front + w)
            /\ at >= now
            /\ now < DurationMax => at > now

\* C7 witness: a rate-limit Defer some time after the oldest admission, with
\* room left below Duration::MAX
C7_Witness ==
    /\ LastRateDeferred
    /\ Head(supervisor.recent_invocations) < Last(supervisor.episodes).now
    /\ unwrap(Last(bundle.decisions).schedule_at) < DurationMax
    /\ unwrap(Last(bundle.decisions).schedule_at) > Last(supervisor.episodes).now

\* C8: every on_event call appends exactly one entry carrying the event's id;
\* the k-th call (from 0, deferred ones included) gets episode_id = k.
C8_OneDecisionPerEvent ==
    /\ Len(bundle.decisions) = Len(bundle.events)
    /\ Len(supervisor.decision_log) = Len(bundle.events)
    /\ \A k \in 1 .. Len(bundle.decisions) :
          /\ bundle.decisions[k].event_id = bundle.events[k].event_id
          /\ bundle.decisions[k].episode_id = k - 1
    /\ \A j, k \in 1 .. Len(bundle.decisions) :
          j < k => bundle.decisions[j].episode_id < bundle.decisions[k].episode_id

\* C8 witness: a full log holding a deferred and an invoked event and a
\* repeated event id
C8_Witness ==
    /\ Len(bundle.decisions) = MaxEvents
    /\ \E j, k \in 1 .. MaxEvents :
          /\ j < k
          /\ bundle.decisions[j].decision = "Defer"
          /\ bundle.decisions[k].decision = "Invoke"
          /\ bundle.decisions[j].event_id = bundle.decisions[k].event_id

-----------------------------------------------------------------------------
(* Retry policy, checked under SpecRetry *)

Retryable == {TimedOut, Failed("NetworkTimeout"), Failed("AdapterUnavailable"),
              Failed("RuntimeError")}

Terminal == {Completed, Aborted, Failed("ValidationFailed"),
             Failed("DeadlineExceeded"), Failed("Cancelled")}

\* C4: for an admitted event the runtime is called again after attempt i iff
\* that attempt ended TimedOut or Failed(NetworkTimeout | AdapterUnavailable |
\* RuntimeError) and fewer than max_retries retries were made; Completed,
\* Aborted and Failed(ValidationFailed | DeadlineExceeded | Cancelled) end the
\* episode at once.
C4_RetryPolicy ==
    \A k \in 1 .. Len(supervisor.episodes) :
        supervisor.episodes[k].guard = "none" =>
            LET calls == supervisor.episodes[k].calls
            IN  /\ Len(calls) >= 1
                /\ \A i \in 1 .. Len(calls) :
                      /\ (i < Len(calls)) <=>
                            (/\ calls[i] \in Retryable
                             /\ i - 1 < supervisor.constraints.max_retries)
                      /\ calls[i] \in Terminal => i = Len(calls)

\* C4 witness: one episode retried after TimedOut and then stopped on
\* Failed(Cancelled) with a retry still available
C4_Witness ==
    \E k \in 1 .. Len(supervisor.episodes) :
        /\ supervisor.episodes[k].calls = <<TimedOut, Failed("Cancelled")>>
        /\ supervisor.constraints.max_retries = 2
        /\ bundle.decisions[k].retry_count = 1

-----------------------------------------------------------------------------
(* Capture and replay, checked under SpecCapture and SpecReplay *)

\* C1: replaying the captured bundle with a runtime that answers each event's
\* successive invocations as the capture-time runtime did returns exactly
\* bundle.decisions (same length, order and fields).
C1_CaptureReplayAgree ==
    is_some(replayed) => unwrap(replayed) = bundle.decisions

\* C1 witness: a replayed session of MaxEvents events holding a deferred event
\* and an invocation that was retried
C1_Witness ==
    /\ is_some(replayed)
    /\ Len(unwrap(replayed)) = MaxEvents
    /\ \E j, k \in 1 .. MaxEvents :
          /\ bundle.decisions[j].decision = "Defer"
          /\ bundle.decisions[k].retry_count > 0

\* C2: two replays of one bundle, each with a clone of the same
\* FaultRuntimeHandle, return identical record sequences, whatever the
\* constraints, events and fault schedule.
C2_ReplayTwiceIdentical ==
    Len(runs) = 2 => runs[1] = runs[2]

-----------------------------------------------------------------------------
(* Properties of validate, checked under SpecValidate *)

Validated == is_some(result) /\ unwrap(result).tag = "Ok"

Rejected(error) == is_some(result) /\ unwrap(result) = Err(error)

Known(n) == n \in DOMAIN graph.nodes /\ graph.nodes[n] \in DOMAIN Catalog

KindOf(n) == Catalog[graph.nodes[n]].kind

BetweenNodes(e) == e.from.tag = "NodePort" /\ e.to.tag = "NodePort"

BetweenKnownNodes(e) ==
    BetweenNodes(e) /\ Known(e.from.node_id) /\ Known(e.to.node_id)

AllowedPairs == {<<"Source", "Compute">>, <<"Compute", "Compute">>,
                 <<"Compute", "Trigger">>, <<"Trigger", "Trigger">>,
                 <<"Trigger", "Action">>}

PairOf(e) == <<KindOf(e.from.node_id), KindOf(e.to.node_id)>>

\* the edges whose two node kinds are a pairing outside the matrix
OtherPairings ==
    {i \in 1 .. Len(graph.edges) :
        BetweenKnownNodes(graph.edges[i]) /\ PairOf(graph.edges[i]) \notin AllowedPairs}

Successors(S) ==
    {graph.edges[i].to.node_id : i \in
        {j \in 1 .. Len(graph.edges) :
            BetweenNodes(graph.edges[j]) /\ graph.edges[j].from.node_id \in S}}

RECURSIVE Descendants(_, _)
Descendants(S, steps) ==
    IF steps = 0 THEN {}
    ELSE Successors(S) \cup Descendants(Successors(S), steps - 1)

Acyclic ==
    \A n \in DOMAIN graph.nodes :
        n \notin Descendants({n}, Cardinality(DOMAIN graph.nodes))

\* the stages before the wiring matrix let the graph through: every node's
\* primitive is in the catalog, no edge has an external endpoint, every edge
\* names nodes of the graph, and there is no cycle
ReachesWiring ==
    /\ \A n \in DOMAIN graph.nodes : Known(n)
    /\ \A i \in 1 .. Len(graph.edges) : BetweenKnownNodes(graph.edges[i])
    /\ Acyclic

\* C9 as claimed: a validated graph has only matrix pairings on its edges, and
\* a graph with any other pairing on some edge is rejected with InvalidEdgeKind.
C9_WiringMatrixAsClaimed ==
    /\ Validated =>
          \A i \in 1 .. Len(graph.edges) :
              BetweenKnownNodes(graph.edges[i]) /\ PairOf(graph.edges[i]) \in AllowedPairs
    /\ (is_some(result) /\ OtherPairings # {}) =>
          /\ unwrap(result).tag = "Err"
          /\ unwrap(result).error[1] = "InvalidEdgeKind"

\* C9 amended: a validated graph has only matrix pairings on its edges; a
\* graph with another pairing is never validated, and it is rejected with
\* InvalidEdgeKind (naming the kinds of the first such edge) when the earlier
\* stages pass: every primitive known, no external or unknown endpoint, no
\* cycle.
C9_WiringMatrix ==
    /\ Validated =>
          \A i \in 1 .. Len(graph.edges) :
              BetweenKnownNodes(graph.edges[i]) /\ PairOf(graph.edges[i]) \in AllowedPairs
    /\ (is_some(result) /\ OtherPairings # {}) =>
          /\ ~Validated
          /\ ReachesWiring =>
                Rejected(<<"InvalidEdgeKind">> \o PairOf(graph.edges[Min(OtherPairings)]))

\* C9 witness: a graph with two edges was validated, each edge a matrix pairing
C9_Witness ==
    /\ Validated
    /\ Len(graph.edges) = 2
    /\ \A i \in 1 .. 2 : PairOf(graph.edges[i]) \in AllowedPairs

Gated(n) ==
    \E i \in 1 .. Len(graph.edges) :
        /\ BetweenKnownNodes(graph.edges[i])
        /\ graph.edges[i].to.node_id = n
        /\ KindOf(graph.edges[i].from.node_id) = "Trigger"
        /\ graph.edges[i].from.port_name
              \in DOMAIN Catalog[graph.nodes[graph.edges[i].from.node_id]].outputs
        /\ Catalog[graph.nodes[graph.edges[i].from.node_id]].outputs[
              graph.edges[i].from.port_name] = "Event"

Ungated == {n \in DOMAIN graph.nodes : Known(n) /\ KindOf(n) = "Action" /\ ~Gated(n)}

RequiredCovered ==
    \A n \in DOMAIN graph.nodes :
        \A k \in 1 .. Len(Catalog[graph.nodes[n]].inputs) :
            Catalog[graph.nodes[n]].inputs[k].required =>
                \E i \in 1 .. Len(graph.edges) :
                    graph.edges[i].to = NodePort(n, Catalog[graph.nodes[n]].inputs[k].name)

TypesMatch ==
    \A i \in 1 .. Len(graph.edges) :
        LET e == graph.edges[i]
            from == Catalog[graph.nodes[e.from.node_id]]
            to == Catalog[graph.nodes[e.to.node_id]]
        IN  /\ e.from.port_name \in DOMAIN from.outputs
            /\ \E k \in 1 .. Len(to.inputs) :
                  /\ to.inputs[k].name = e.to.port_name
                  /\ to.inputs[k].value_type = from.outputs[e.from.port_name]

\* the stages before action gating let the graph through
ReachesGating ==
    /\ ReachesWiring
    /\ OtherPairings = {}
    /\ RequiredCovered
    /\ TypesMatch

\* C10 as claimed: in a validated graph every Action has an incoming edge from
\* a Trigger output declared Event, and an Action without one makes validate
\* return ActionNotGated with that node's id.
C10_ActionGatingAsClaimed ==
    /\ Validated => Ungated = {}
    /\ is_some(result) => \A n \in Ungated : Rejected(<<"ActionNotGated", n>>)

\* C10 amended: in a validated graph every Action has an incoming edge from a
\* Trigger output declared Event; a graph with an Action lacking one is never
\* validated, and when the earlier stages pass (known primitives, no external
\* or unknown endpoint, no cycle, matrix pairings, required inputs covered,
\* types equal) validate returns ActionNotGated with the id of such an Action.
C10_ActionGating ==
    /\ Validated => Ungated = {}
    /\ (is_some(result) /\ Ungated # {}) =>
          /\ ~Validated
          /\ ReachesGating => \E n \in Ungated : Rejected(<<"ActionNotGated", n>>)

\* C10 witness: a validated graph holding an Action gated by a Trigger event
C10_Witness ==
    /\ Validated
    /\ \E n \in DOMAIN graph.nodes : KindOf(n) = "Action" /\ Gated(n)

\* the gating stage itself rejected a graph: ActionNotGated is returned
C10_GatingRejects ==
    \E n \in Ungated : Rejected(<<"ActionNotGated", n>>)

-----------------------------------------------------------------------------
(* Required inputs, types, topological order, external inputs and panics of  *)
(* validate, checked under SpecValidate                                      *)

\* the edges that terminate on port `name` of node n
EdgesInto(n, name) ==
    {i \in 1 .. Len(graph.edges) : graph.edges[i].to = NodePort(n, name)}

\* the required input ports of the graph: <<node, port name>>
RequiredPorts ==
    UNION {{<<n, Catalog[graph.nodes[n]].inputs[k].name>> :
               k \in {j \in 1 .. Len(Catalog[graph.nodes[n]].inputs) :
                         Catalog[graph.nodes[n]].inputs[j].required}} :
           n \in {m \in DOMAIN graph.nodes : Known(m)}}

\* C11: in every graph accepted by validate, each required input port of each
\* node is the target of exactly one edge (a graph in which two or more edges
\* terminate on the same required port is not accepted).
C11_RequiredInputExactlyOne ==
    Validated => \A p \in RequiredPorts : Cardinality(EdgesInto(p[1], p[2])) = 1

\* what enforce_required_inputs does guarantee: every required port of an
\* accepted graph has at least one incoming edge
C11_RequiredInputCovered ==
    Validated => \A p \in RequiredPorts : EdgesInto(p[1], p[2]) # {}

\* an accepted graph in which two edges terminate on one required port
C11_DuplicateAccepted ==
    Validated /\ \E p \in RequiredPorts : Cardinality(EdgesInto(p[1], p[2])) = 2

\* the declared type of output port `name` of node n, if any
OutputType(n, name) ==
    IF name \in DOMAIN Catalog[graph.nodes[n]].outputs
    THEN Some(Catalog[graph.nodes[n]].outputs[name]) ELSE None

\* the declared type of input port `name` of node n, if any
InputType(n, name) ==
    LET inputs == Catalog[graph.nodes[n]].inputs
        found == {k \in 1 .. Len(inputs) : inputs[k].name = name}
    IN  IF found = {} THEN None ELSE Some(inputs[Min(found)].value_type)

\* edge i joins declared ports of known nodes
PortsDeclared(i) ==
    /\ BetweenKnownNodes(graph.edges[i])
    /\ is_some(OutputType(graph.edges[i].from.node_id, graph.edges[i].from.port_name))
    /\ is_some(InputType(graph.edges[i].to.node_id, graph.edges[i].to.port_name))

\* the edges whose declared source and target types differ
Differing ==
    {i \in 1 .. Len(graph.edges) :
        /\ PortsDeclared(i)
        /\ OutputType(graph.edges[i].from.node_id, graph.edges[i].from.port_name)
              # InputType(graph.edges[i].to.node_id, graph.edges[i].to.port_name)}

\* the TypeMismatch error of edge i: expected is the input's type, got the
\* output's
TypeMismatchOf(i) ==
    LET e == graph.edges[i]
    IN  <<"TypeMismatch", e.from.node_id, e.from.port_name, e.to.node_id, e.to.port_name,
          unwrap(InputType(e.to.node_id, e.to.port_name)),
          unwrap(OutputType(e.from.node_id, e.from.port_name))>>

\* the stages before the type check let the graph through
ReachesTypes ==
    /\ ReachesWiring
    /\ OtherPairings = {}
    /\ RequiredCovered

\* C12 as claimed: in a validated graph every edge joins a declared output to
\* a declared input of the same type, and a graph with an edge whose two
\* declared types differ is rejected with TypeMismatch (expected = input type,
\* got = output type).
C12_TypeMatchingAsClaimed ==
    /\ Validated =>
          \A i \in 1 .. Len(graph.edges) : PortsDeclared(i) /\ i \notin Differing
    /\ (is_some(result) /\ Differing # {}) =>
          \E i \in Differing : Rejected(TypeMismatchOf(i))

\* C12 amended: in a validated graph every edge joins a declared output to a
\* declared input of the same type; a graph with an edge whose declared types
\* differ is never validated, and it is rejected with TypeMismatch (expected =
\* input type, got = output type) of the first such edge when the earlier
\* stages pass and every edge before it joins declared ports.
C12_TypeMatching ==
    /\ Validated =>
          \A i \in 1 .. Len(graph.edges) : PortsDeclared(i) /\ i \notin Differing
    /\ (is_some(result) /\ Differing # {}) =>
          /\ ~Validated
          /\ (ReachesTypes /\ \A i \in 1 .. Min(Differing) : PortsDeclared(i)) =>
                Rejected(TypeMismatchOf(Min(Differing)))

\* C12 witness: the type check rejected an edge from a Number output to an
\* Event input
C12_Witness ==
    \E i \in Differing :
        /\ Rejected(TypeMismatchOf(i))
        /\ TypeMismatchOf(i)[6] = "Event"
        /\ TypeMismatchOf(i)[7] = "Number"

\* the nodes that can be emitted once the nodes of `emitted` are: not emitted
\* yet, and the source of every edge into them is
Ready(emitted) ==
    {n \in DOMAIN graph.nodes \ emitted :
        \A i \in 1 .. Len(graph.edges) :
            graph.edges[i].to.node_id = n => graph.edges[i].from.node_id \in emitted}

\* order emits every node once, sources before targets, always the smallest
\* ready id
Canonical(order) ==
    /\ Len(order) = Cardinality(DOMAIN graph.nodes)
    /\ {order[k] : k \in 1 .. Len(order)} = DOMAIN graph.nodes
    /\ \A i \in 1 .. Len(graph.edges) :
          \E a, b \in 1 .. Len(order) :
              /\ a < b
              /\ order[a] = graph.edges[i].from.node_id
              /\ order[b] = graph.edges[i].to.node_id
    /\ \A k \in 1 .. Len(order) :
          order[k] = Min(Ready({order[j] : j \in 1 .. k - 1}))

\* the graph with its edge list in every order
Reordered ==
    {[graph EXCEPT !.edges = [i \in 1 .. Len(graph.edges) |-> graph.edges[p[i]]]] :
        p \in Permutations(1 .. Len(graph.edges))}

\* every call of validate on the graph, whatever the order of its edges,
\* returns this topo_order
SameOrderEveryCall(order) ==
    \A g \in Reordered :
        \A r \in validate(g, Catalog) : r.tag = "Ok" /\ r.value.topo_order = order

\* the stages before topological_sort let the graph through
ReachesTopo ==
    /\ \A n \in DOMAIN graph.nodes : Known(n)
    /\ \A i \in 1 .. Len(graph.edges) : BetweenKnownNodes(graph.edges[i])

\* C13 as claimed: the topo_order of a validated graph is the canonical order
\* (a permutation of the ids, sources before targets, smallest ready id first),
\* the same on every call and for every order of the edge list; a graph with a
\* directed cycle, a self-loop included, is rejected with CycleDetected.
C13_CanonicalOrderAsClaimed ==
    /\ Validated =>
          /\ Canonical(unwrap(result).value.topo_order)
          /\ SameOrderEveryCall(unwrap(result).value.topo_order)
    /\ (is_some(result) /\ ~Acyclic) => Rejected(<<"CycleDetected">>)

\* C13 amended: the topo_order of a validated graph is the canonical order,
\* the same on every call and for every order of the edge list; a graph with a
\* directed cycle is never validated, and it is rejected with CycleDetected
\* when every node's primitive is in the catalog and every edge joins two
\* nodes of the graph.
C13_CanonicalOrder ==
    /\ Validated =>
          /\ Canonical(unwrap(result).value.topo_order)
          /\ SameOrderEveryCall(unwrap(result).value.topo_order)
    /\ (is_some(result) /\ ~Acyclic) =>
          /\ ~Validated
          /\ ReachesTopo => Rejected(<<"CycleDetected">>)

\* C13 witness: a validated graph whose order is not the order of the ids
C13_Witness ==
    /\ Validated
    /\ Len(graph.edges) = 2
    /\ unwrap(result).value.topo_order[1] # 1

\* C13 witness of the cycle case: a self-loop was rejected with CycleDetected
C13_CycleRejected ==
    /\ Rejected(<<"CycleDetected">>)
    /\ \E i \in 1 .. Len(graph.edges) :
          graph.edges[i].from.node_id = graph.edges[i].to.node_id

\* the external names of the edge endpoints, in the order validate meets them
RECURSIVE ExternalNames(_)
ExternalNames(edges) ==
    IF edges = <<>> THEN <<>>
    ELSE (IF Head(edges).from.tag = "ExternalInput" THEN <<Head(edges).from.name>>
          ELSE IF Head(edges).to.tag = "ExternalInput" THEN <<Head(edges).to.name>>
          ELSE <<>>) \o ExternalNames(Tail(edges))

\* C14 as claimed: validate returns ExternalInputNotAllowed whenever an edge
\* has an ExternalInput endpoint (source or sink), and every edge of a
\* validated graph connects two node ports.
C14_ExternalInputsAsClaimed ==
    /\ Validated => \A i \in 1 .. Len(graph.edges) : BetweenNodes(graph.edges[i])
    /\ (is_some(result) /\ ExternalNames(graph.edges) # <<>>) =>
          /\ unwrap(result).tag = "Err"
          /\ unwrap(result).error[1] = "ExternalInputNotAllowed"

\* C14 amended: every edge of a validated graph connects two node ports; a
\* graph with an ExternalInput endpoint is never validated, and when every
\* node's primitive is in the catalog validate returns ExternalInputNotAllowed
\* with the name of the first such endpoint, whatever cycles, pairings,
\* missing inputs, types or ungated actions the graph has.
C14_ExternalInputs ==
    /\ Validated => \A i \in 1 .. Len(graph.edges) : BetweenNodes(graph.edges[i])
    /\ (is_some(result) /\ ExternalNames(graph.edges) # <<>>) =>
          /\ ~Validated
          /\ (\A n \in DOMAIN graph.nodes : Known(n)) =>
                Rejected(<<"ExternalInputNotAllowed", Head(ExternalNames(graph.edges))>>)

\* C14 witness: an external sink was rejected in a graph that also has a
\* self-loop
C14_Witness ==
    /\ Rejected(<<"ExternalInputNotAllowed", "y">>)
    /\ \E i \in 1 .. Len(graph.edges) :
          /\ BetweenNodes(graph.edges[i])
          /\ graph.edges[i].from.node_id = graph.edges[i].to.node_id

\* C15: validate returns a ValidatedGraph or a ValidationError for every
\* graph, one whose edge names a node id missing from `nodes` included, and
\* never panics.
C15_NeverPanics ==
    is_some(result) => unwrap(result).tag \in {"Ok", "Err"}

\* a panic on a graph whose only fault is an edge to a node that is not there
C15_PanicOnDanglingEdge ==
    /\ is_some(result) /\ unwrap(result) = Panic
    /\ \A n \in DOMAIN graph.nodes : Known(n)
    /\ \E i \in 1 .. Len(graph.edges) :
          /\ BetweenNodes(graph.edges[i])
          /\ graph.edges[i].to.node_id \notin DOMAIN graph.nodes

-----------------------------------------------------------------------------
(* Properties of infer_signature, checked under SpecInfer *)

Inferred == is_some(result) /\ unwrap(result).tag = "Ok"

\* the boundary outputs whose source node is not an Action
WireableOutputs ==
    {i \in 1 .. Len(graph.boundary_outputs) :
        KindOf(graph.boundary_outputs[i].maps_to.node_id) # "Action"}

\* the declared type of the output a boundary output maps to
BoundaryOutputType(i) ==
    Catalog[graph.nodes[graph.boundary_outputs[i].maps_to.node_id]].outputs[
        graph.boundary_outputs[i].maps_to.port_name]

\* the kind the classification rules give the graph
ClassifiedKind ==
    IF WireableOutputs = {} THEN "ActionLike"
    ELSE IF /\ graph.boundary_inputs = <<>>
            /\ \A i \in WireableOutputs : BoundaryOutputType(i) # "Event"
    THEN "SourceLike"
    ELSE IF \E i \in WireableOutputs : BoundaryOutputType(i) = "Event"
    THEN "TriggerLike"
    ELSE "ComputeLike"

\* C18: infer_signature marks a boundary output wireable iff its source node
\* is not an Action, marks every boundary input not wireable, and returns
\* ActionLike if no output is wireable, else SourceLike if there are no
\* boundary inputs and no wireable output is an Event, else TriggerLike if a
\* wireable output is an Event, else ComputeLike; every call on the graph
\* returns the same signature.
C18_BoundaryClassification ==
    Inferred =>
        LET sig == unwrap(result).value
        IN  /\ Len(sig.outputs) = Len(graph.boundary_outputs)
            /\ \A i \in 1 .. Len(sig.outputs) :
                  /\ sig.outputs[i].name = graph.boundary_outputs[i].name
                  /\ sig.outputs[i].wireable <=> i \in WireableOutputs
            /\ Len(sig.inputs) = Len(graph.boundary_inputs)
            /\ \A i \in 1 .. Len(sig.inputs) :
                  /\ sig.inputs[i].name = graph.boundary_inputs[i].name
                  /\ ~sig.inputs[i].wireable
            /\ sig.kind = ClassifiedKind
            /\ infer_signature(graph, Catalog) = {unwrap(result)}

\* C18 witness: a graph with a boundary input and a wireable Bool or Number
\* output next to an Action's output was classified ComputeLike
C18_Witness ==
    /\ Inferred
    /\ unwrap(result).value.kind = "ComputeLike"
    /\ graph.boundary_inputs # <<>>
    /\ \E i \in 1 .. Len(graph.boundary_outputs) : i \notin WireableOutputs

\* every kind is inferred for some graph
C18_ActionLike == Inferred /\ unwrap(result).value.kind = "ActionLike"

C18_SourceLike == Inferred /\ unwrap(result).value.kind = "SourceLike"

C18_TriggerLike ==
    Inferred /\ unwrap(result).value.kind = "TriggerLike" /\ graph.boundary_inputs = <<>>

-----------------------------------------------------------------------------
(* Properties of expand on a root that declares a signature, checked under   *)
(* SpecSignature                                                             *)

Expanded == is_some(result) /\ unwrap(result).tag = "Ok"

Declared == unwrap(root).declared_signature

\* the first port of the list with this name
PortNamed(ports, name) ==
    ports[Min({k \in 1 .. Len(ports) : ports[k].name = name})]

PortNames(ports) == {ports[k].name : k \in 1 .. Len(ports)}

\* the primitive kind of the root's Impl node
RootKindOf(node_id) == Catalog[unwrap(root).nodes[node_id].kind.impl_id].kind

\* inference succeeds on the expansion of the root: every primitive is in the
\* catalog and every output port names an output of a node
InferenceSucceeds ==
    /\ \A n \in DOMAIN unwrap(root).nodes :
          unwrap(root).nodes[n].kind.impl_id \in DOMAIN Catalog
    /\ \A k \in 1 .. Len(unwrap(root).output_ports) :
          /\ unwrap(root).output_ports[k].maps_to.node_id \in DOMAIN unwrap(root).nodes
          /\ unwrap(root).output_ports[k].maps_to.port_name = "out"

\* the declared outputs that are wireable where the inferred output of the
\* same name is not: the output port's node is an Action
ExceedingOutputs ==
    {i \in 1 .. Len(unwrap(Declared).outputs) :
        /\ unwrap(Declared).outputs[i].name \in PortNames(unwrap(root).output_ports)
        /\ unwrap(Declared).outputs[i].wireable
        /\ RootKindOf(PortNamed(unwrap(root).output_ports,
                                unwrap(Declared).outputs[i].name).maps_to.node_id) = "Action"}

\* the declared inputs that are wireable and name an input port: an inferred
\* input is never wireable
ExceedingInputs ==
    {i \in 1 .. Len(unwrap(Declared).inputs) :
        /\ unwrap(Declared).inputs[i].name \in PortNames(unwrap(root).input_ports)
        /\ unwrap(Declared).inputs[i].wireable}

\* the port WireabilityExceedsInferred has to name
FirstExceeding ==
    IF ExceedingOutputs # {} THEN unwrap(Declared).outputs[Min(ExceedingOutputs)].name
    ELSE unwrap(Declared).inputs[Min(ExceedingInputs)].name

\* expansion got as far as the signature check: the definition has no
\* duplicate port and the E.3 assertion did not stop the run
SignatureChecked ==
    /\ ~is_some(first_duplicate(unwrap(root).input_ports))
    /\ ~is_some(first_duplicate(unwrap(root).output_ports))
    /\ is_some(result) /\ unwrap(result) # Panic

C17_OutputRejected ==
    /\ is_some(root) /\ is_some(Declared)
    /\ Rejected(<<"DeclaredSignatureInvalid", <<"WireabilityExceedsInferred", "o2">>>>)

\* a root whose declared signature restricts an inferred wireable output was
\* expanded
C17_RestrictionAccepted ==
    /\ Expanded
    /\ is_some(root) /\ is_some(Declared)
    /\ \E i \in 1 .. Len(unwrap(Declared).outputs) :
          /\ ~unwrap(Declared).outputs[i].wireable
          /\ unwrap(Declared).outputs[i].name \in PortNames(unwrap(root).output_ports)
          /\ RootKindOf(PortNamed(unwrap(root).output_ports,
                                  unwrap(Declared).outputs[i].name).maps_to.node_id) = "Source"

-----------------------------------------------------------------------------
(* Properties of expansion, checked under SpecExpand *)

\* C16: whenever expand returns an ExpandedGraph, no edge of it has an
\* ExternalInput endpoint as its sink.
C16_ClosureAfterExpansion ==
    Expanded =>
        \A i \in 1 .. Len(unwrap(result).value.edges) :
            unwrap(result).value.edges[i].to.tag # "ExternalInput"

\* a graph was returned in which an edge to a nested input port that no
\* nested edge reads kept the placeholder as its sink
C16_UnreadPortSink ==
    /\ Expanded
    /\ unwrap(root).edges = <<Edge(OutputRef("a", "out"), InputRef("c", "in"))>>
    /\ loader["N"].input_ports # <<>>
    /\ \E i \in 1 .. Len(unwrap(result).value.edges) :
          unwrap(result).value.edges[i].to.tag = "ExternalInput"

\* the nested cluster the root's node c refers to
Nested == loader[unwrap(root).nodes["c"].kind.cluster_id]

\* the root's node c is a loaded cluster with the input port "in"
NestedPort ==
    /\ unwrap(root).nodes["c"].kind.cluster_id \in DOMAIN loader
    /\ Nested.input_ports # <<>>

\* the external key of the placeholder behind the nested input port
NestedKey == external_key(<<<<"R", "c">>>>, "N", "x")

\* the root edges that wire the nested input port
Wiring ==
    {k \in 1 .. Len(unwrap(root).edges) : unwrap(root).edges[k].to = InputRef("c", "in")}

\* the nested edges that read the placeholder; expansion emits the nested
\* edges first, in their order
Readers == {i \in 1 .. Len(Nested.edges) : Nested.edges[i].from.node_id = "x"}

\* the endpoint the source of root edge k resolves to: the port of the
\* expanded node of a, or the placeholder of the root named by the source
ResolvedSource(k) ==
    IF unwrap(root).edges[k].from.node_id = "a"
    THEN NodePort(CHOOSE n \in DOMAIN unwrap(result).value.nodes :
                      unwrap(result).value.nodes[n] = "src",
                  unwrap(root).edges[k].from.port_name)
    ELSE ExternalInput(external_key(<<>>, "R", unwrap(root).edges[k].from.node_id))

Mentions(edge, key) == edge.from = ExternalInput(key) \/ edge.to = ExternalInput(key)

\* a root edge after k targets the root placeholder that the source of k
\* resolved to, and so redirects once more
RewiredLater(k) ==
    /\ unwrap(root).edges[k].from.node_id = "x"
    /\ \E j \in k + 1 .. Len(unwrap(root).edges) : unwrap(root).edges[j].to.node_id = "x"

-----------------------------------------------------------------------------
(* Properties of the registries, checked under SpecRegistry *)

LastCall == unwrap(result)

CalledId == LastCall.primitive.manifest.id

Before == LastCall.before[LastCall.registry]

After == registries[LastCall.registry]

\* validate_manifest of the registry the last call went to, on its manifest
Validation ==
    CASE LastCall.registry = "sources" -> SourceRegistry_validate_manifest(LastCall.primitive.manifest)
      [] LastCall.registry = "computes" -> PrimitiveRegistry_validate_manifest(LastCall.primitive.manifest)
      [] LastCall.registry = "triggers" -> TriggerRegistry_validate_manifest(LastCall.primitive.manifest)
      [] LastCall.registry = "actions" -> ActionRegistry_validate_manifest(LastCall.primitive.manifest)

\* the call succeeded and get(id) returns the implementation handed over, or it
\* returned an error and left the registry as it was; the other three
\* registries are as they were
AllOrNothing ==
    /\ LastCall.outcome.tag \in {"Ok", "Err"}
    /\ LastCall.outcome.tag = "Ok" => get(After, CalledId) = Some(LastCall.primitive)
    /\ LastCall.outcome.tag = "Err" => After = Before
    /\ \A k \in DOMAIN registries : k # LastCall.registry => registries[k] = LastCall.before[k]

\* C20 as stated: after any sequence of register calls on the four registries,
\* a call either succeeds and get(id) then returns that implementation, or
\* returns an error and leaves the registry unchanged; and a call with an id
\* that is already present returns DuplicateId(id), get(id) still returning the
\* implementation registered first.
C20_AllOrNothingAsClaimed ==
    is_some(result) =>
        /\ AllOrNothing
        /\ CalledId \in DOMAIN Before =>
               /\ LastCall.outcome = Err(<<"DuplicateId", CalledId>>)
               /\ get(After, CalledId) = get(Before, CalledId)

\* C20, amended: every register call is all-or-nothing as above; a call with
\* an id that is already present always fails and get(id) still returns the
\* implementation registered first, but the error is DuplicateId(id) only when
\* the manifest passes validate_manifest: the manifest is validated before the
\* id is looked up, so that an invalid manifest under a present id returns the
\* error of the first rule it breaks.
C20_AllOrNothing ==
    is_some(result) =>
        /\ AllOrNothing
        /\ CalledId \in DOMAIN Before =>
               /\ LastCall.outcome.tag = "Err"
               /\ Validation.tag = "Ok" => LastCall.outcome = Err(<<"DuplicateId", CalledId>>)
               /\ Validation.tag = "Err" => LastCall.outcome = Validation
               /\ get(After, CalledId) = get(Before, CalledId)
        /\ CalledId \notin DOMAIN Before => LastCall.outcome = Validation

\* a second object of another version is registered under a present id of the
\* compute registry: DuplicateId, and get still returns the first object
C20_Witness ==
    /\ is_some(result)
    /\ LastCall.registry = "computes"
    /\ CalledId \in DOMAIN Before
    /\ Before[CalledId].manifest.version # LastCall.primitive.manifest.version
    /\ LastCall.outcome = Err(<<"DuplicateId", CalledId>>)
    /\ get(After, CalledId) = Some(Before[CalledId])

\* an invalid manifest under a present id: the validation error, not DuplicateId
C20_InvalidDuplicate ==
    /\ is_some(result)
    /\ CalledId \in DOMAIN Before
    /\ Validation.tag = "Err"
    /\ LastCall.outcome = Validation
    /\ After = Before

\* a successful registration after which get returns the object handed over
C20_Registered ==
    /\ is_some(result)
    /\ LastCall.outcome = Ok(<<>>)
    /\ CalledId \notin DOMAIN Before
    /\ get(After, CalledId) = Some(LastCall.primitive)

-----------------------------------------------------------------------------
(* The Event input rule of the action registry, checked under SpecRegistry *)

EventInputs(manifest) == {i \in DOMAIN manifest.inputs : manifest.inputs[i].value_type = "Event"}

\* C21: ActionRegistry::register accepts a manifest only if it declares
\* exactly one input of type Event; a manifest with no Event input, or with
\* two or more, is rejected and not added.
C21_ExactlyOneEventInput ==
    (is_some(result) /\ LastCall.registry = "actions") =>
        /\ LastCall.outcome.tag = "Ok" => Cardinality(EventInputs(LastCall.primitive.manifest)) = 1
        /\ Cardinality(EventInputs(LastCall.primitive.manifest)) # 1 =>
               /\ LastCall.outcome.tag = "Err"
               /\ After = Before

\* what the code enforces: at least one Event input
C21_AtLeastOneEventInput ==
    (is_some(result) /\ LastCall.registry = "actions") =>
        /\ LastCall.outcome.tag = "Ok" => Cardinality(EventInputs(LastCall.primitive.manifest)) >= 1
        /\ EventInputs(LastCall.primitive.manifest) = {} =>
               /\ LastCall.outcome.tag = "Err"
               /\ After = Before

\* an action with two Event inputs is registered
C21_TwoEventInputsAccepted ==
    /\ is_some(result)
    /\ LastCall.registry = "actions"
    /\ Cardinality(EventInputs(LastCall.primitive.manifest)) = 2
    /\ LastCall.outcome = Ok(<<>>)
    /\ get(After, CalledId) = Some(LastCall.primitive)

-----------------------------------------------------------------------------
(* Retry accounting, checked under SpecRetry *)

\* C23: for every entry logged with decision Invoke, the runtime was called
\* exactly retry_count + 1 times for that event, retry_count <= max_retries,
\* the logged termination is the result of the last call, and a logged
\* termination that is retryable (TimedOut or Failed(NetworkTimeout |
\* AdapterUnavailable | RuntimeError)) means retry_count = max_retries.
C23_RetryAccounting ==
    /\ Len(supervisor.decision_log) = Len(supervisor.episodes)
    /\ \A k \in 1 .. Len(supervisor.decision_log) :
          supervisor.decision_log[k].decision = "Invoke" =>
              LET entry == supervisor.decision_log[k]
                  calls == supervisor.episodes[k].calls
              IN  /\ Len(calls) = entry.retry_count + 1
                  /\ entry.retry_count <= supervisor.constraints.max_retries
                  /\ entry.termination = Last(calls)
                  /\ entry.termination \in Retryable =>
                         entry.retry_count = supervisor.constraints.max_retries
                  /\ bundle.decisions[k].retry_count = entry.retry_count
                  /\ bundle.decisions[k].termination = entry.termination

\* C23 witness: the retry budget of 2 is used up and the last call, the third,
\* still ends in a retryable termination, which is the one logged
C23_Witness ==
    \E k \in 1 .. Len(supervisor.decision_log) :
        /\ supervisor.decision_log[k].decision = "Invoke"
        /\ supervisor.constraints.max_retries = 2
        /\ supervisor.episodes[k].calls = <<TimedOut, Failed("NetworkTimeout"), Failed("RuntimeError")>>
        /\ supervisor.decision_log[k].retry_count = 2
        /\ supervisor.decision_log[k].termination = Failed("RuntimeError")

\* an episode that stops on a terminal result with retries to spare
C23_StoppedEarly ==
    \E k \in 1 .. Len(supervisor.decision_log) :
        /\ supervisor.decision_log[k].decision = "Invoke"
        /\ supervisor.constraints.max_retries = 2
        /\ supervisor.decision_log[k].retry_count = 1
        /\ supervisor.decision_log[k].termination = Completed

-----------------------------------------------------------------------------
(* in_flight between events, checked under SpecPolicy *)

\* the log entry the step's on_event wrote
Logged == Last(supervisor.decision_log')

\* C30: before and after every on_event call in_flight is 0, so the
\* concurrency guard defers an event iff max_in_flight = Some(0) and never
\* with max_in_flight = Some(k), k >= 1; a deferred event changes neither
\* in_flight nor the rate queue.
C30_InFlightZeroBetweenEvents ==
    /\ [](/\ supervisor.in_flight = 0
          /\ \A k \in 1 .. Len(supervisor.episodes) :
                /\ supervisor.episodes[k].in_flight = 0
                /\ supervisor.episodes[k].guard = "concurrency"
                      <=> supervisor.constraints.max_in_flight = Some(0)
                /\ (/\ is_some(supervisor.constraints.max_in_flight)
                    /\ unwrap(supervisor.constraints.max_in_flight) >= 1)
                   => supervisor.episodes[k].guard # "concurrency")
    /\ [][Logged.decision = "Defer" =>
             /\ supervisor'.in_flight = supervisor.in_flight
             /\ supervisor'.recent_invocations = supervisor.recent_invocations
             /\ supervisor'.runtime = supervisor.runtime]_vars

\* C30 witness: max_in_flight = Some(1); an event was invoked and a later one
\* deferred by the rate guard with the queue non-empty, in_flight being 0 at
\* both and afterwards
C30_Witness ==
    /\ supervisor.constraints.max_in_flight = Some(1)
    /\ supervisor.in_flight = 0
    /\ supervisor.recent_invocations # <<>>
    /\ \E j, k \in 1 .. Len(supervisor.episodes) :
          /\ j < k
          /\ supervisor.episodes[j].guard = "none"
          /\ supervisor.episodes[k].guard = "rate"
          /\ supervisor.episodes[k].in_flight = 0
          /\ supervisor.decision_log[k].decision = "Defer"

\* with max_in_flight = Some(0) every event is deferred by the concurrency guard
C30_AlwaysDeferred ==
    /\ supervisor.constraints.max_in_flight = Some(0)
    /\ Len(supervisor.episodes) = MaxEvents
    /\ \A k \in 1 .. Len(supervisor.episodes) : supervisor.episodes[k].guard = "concurrency"

-----------------------------------------------------------------------------
(* Properties of run and execute, checked under SpecRun *)

\* what validate can return for the graph a pass was made on
PassValidated(p) == validate(p.graph, build_core_catalog)

Accepted(p) == \E v \in PassValidated(p) : v.tag = "Ok"

\* C22: validation precedes all execution: a pass of run calls a primitive
\* only if validate accepted the graph, and on a graph validate turns down
\* the pass ends in RuntimeError::Validation of that error with no primitive
\* called, the nodes ahead of the faulty one included.
C22_ValidationPrecedesExecution ==
    \A i \in DOMAIN passes :
        /\ passes[i].calls # <<>> => Accepted(passes[i])
        /\ (\E v \in PassValidated(passes[i]) : v.tag = "Err") =>
              /\ passes[i].calls = <<>>
              /\ \E v \in PassValidated(passes[i]) :
                    passes[i].outcome = RuntimeError_Validation(v.error)

\* a pass over the hello-world graph without the edge into the action: the
\* sources, the compute and the trigger are well wired and come first in the
\* order, and none of them was called
C22_Witness ==
    \E i \in DOMAIN passes :
        /\ passes[i].outcome = RuntimeError_Validation(<<"MissingRequiredInput", 1, "event">>)
        /\ passes[i].graph.edges = Without(HelloEdges, 4)
        /\ passes[i].calls = <<>>

\* the ValidatedGraph execute works on in a pass over an accepted graph
PassGraph(p) ==
    ValidatedGraph((CHOOSE v \in PassValidated(p) : v.tag = "Ok").value, p.graph)

\* the nodes of the calls of a pass, in the order of the calls
Invoked(p) == [k \in DOMAIN p.calls |-> p.calls[k].node]

\* how often the primitive of node n was invoked in a pass
Invocations(p, n) == Cardinality({k \in DOMAIN p.calls : p.calls[k].node = n})

\* every primitive called in the pass returned all the outputs its node declares
EmitsDeclaredOutputs(p) ==
    \A k \in DOMAIN p.calls :
        /\ p.calls[k].answer.tag = "Returned"
        /\ DOMAIN PassGraph(p).nodes[p.calls[k].node].outputs \subseteq DOMAIN p.calls[k].answer.outputs

\* at call k the producer of every edge into the node was called before and its
\* port is among the inputs handed over
ProducersRecorded(p, k) ==
    \A e \in {PassGraph(p).edges[j] : j \in DOMAIN PassGraph(p).edges} :
        e.to.node_id = p.calls[k].node =>
            /\ \E j \in 1 .. k - 1 :
                  /\ p.calls[j].node = e.from.node_id
                  /\ p.calls[j].answer.tag = "Returned"
                  /\ e.from.port_name \in DOMAIN p.calls[j].answer.outputs
            /\ e.to.port_name \in DOMAIN p.calls[k].inputs

IsMissingOutput(outcome) ==
    outcome.tag = "Err" /\ outcome.error[1] = "Execution" /\ outcome.error[2][1] = "MissingOutput"

\* C24 as stated: in every pass of execute each node's primitive is invoked
\* exactly once.
C24_ExactlyOncePerPass ==
    \A i \in DOMAIN passes :
        Accepted(passes[i]) =>
            \A n \in DOMAIN PassGraph(passes[i]).nodes : Invocations(passes[i], n) = 1

\* C24: execution order: the primitives invoked in a pass are those of a
\* prefix of topo_order, in that order and each once, the whole of topo_order
\* when the pass returns Ok; at the moment a node is invoked the producer of
\* every edge into it has been invoked and its output recorded; and when the
\* primitives emit all their declared outputs the pass does not stop at a node
\* with MissingOutput.
C24_ExecutionOrder ==
    \A i \in DOMAIN passes :
        Accepted(passes[i]) =>
            LET p == passes[i]
                order == PassGraph(p).topo_order
            IN  /\ Len(p.calls) <= Len(order)
                /\ Invoked(p) = SubSeq(order, 1, Len(p.calls))
                /\ \A n \in DOMAIN PassGraph(p).nodes : Invocations(p, n) <= 1
                /\ p.outcome.tag = "Ok" => Len(p.calls) = Len(order)
                /\ \A k \in DOMAIN p.calls : ProducersRecorded(p, k)
                /\ EmitsDeclaredOutputs(p) /\ Len(p.calls) < Len(order) => ~IsMissingOutput(p.outcome)

\* a pass over the hello-world graph that returned Ok after five calls
C24_Witness ==
    \E i \in DOMAIN passes :
        /\ passes[i].outcome.tag = "Ok"
        /\ Invoked(passes[i]) = <<4, 5, 3, 2, 1>>
        /\ EmitsDeclaredOutputs(passes[i])

\* a pass over an accepted graph that ended before the last node was invoked
C24_StoppedEarly ==
    \E i \in DOMAIN passes :
        /\ Accepted(passes[i])
        /\ passes[i].calls # <<>>
        /\ Len(passes[i].calls) < 5

\* a pass stopped by MissingOutput at a node whose producer returned nothing
C24_MuteProducer ==
    \E i \in DOMAIN passes :
        /\ Accepted(passes[i])
        /\ IsMissingOutput(passes[i].outcome)
        /\ Len(passes[i].calls) < 5
        /\ ~EmitsDeclaredOutputs(passes[i])

\* the Action nodes of the graph of a pass
ActionNodes(p) == {n \in DOMAIN PassGraph(p).nodes : PassGraph(p).nodes[n].kind = "Action"}

\* the inputs of an action that an edge from a Trigger node feeds
TriggerFed(p, n) ==
    {PassGraph(p).edges[j].to.port_name : j \in
        {e \in DOMAIN PassGraph(p).edges :
            /\ PassGraph(p).edges[e].to.node_id = n
            /\ PassGraph(p).nodes[PassGraph(p).edges[e].from.node_id].kind = "Trigger"}}

\* the hello-world topology over the core registries with both source values set
HelloWorld(p) ==
    /\ p.graph.nodes = HelloNodes
    /\ {p.graph.edges[j] : j \in DOMAIN p.graph.edges} = {HelloEdges[j] : j \in DOMAIN HelloEdges}
    /\ p.registries = core_registries
    /\ p.graph.parameters[2] = <<>> /\ p.graph.parameters[3] = <<>>
    /\ p.graph.parameters[4] # <<>>
    /\ p.graph.boundary_outputs[1] = OutputPortSpec("action_outcome", OutputRef(1, "outcome"))
    /\ Len(p.graph.boundary_outputs) = 1

\* C25 as stated: execute invokes every Action node of a validated graph
\* exactly once in every pass.
C25_EveryActionInvoked ==
    \A i \in DOMAIN passes :
        Accepted(passes[i]) =>
            \A n \in ActionNodes(passes[i]) : Invocations(passes[i], n) = 1

\* C25: actions run whatever the trigger produced: a pass that returns Ok
\* invoked every Action node exactly once (no pass invokes one twice); the
\* value an action is handed on an input fed by a Trigger is Attempted whether
\* the trigger produced Emitted or NotEmitted; and in the hello-world topology
\* the boundary output action_outcome is Filled when accept = true and
\* Rejected when accept = false, for any pair of source values.
C25_ActionsRunOnEveryPass ==
    \A i \in DOMAIN passes :
        Accepted(passes[i]) =>
            LET p == passes[i]
            IN  /\ \A n \in ActionNodes(p) :
                      /\ Invocations(p, n) <= 1
                      /\ p.outcome.tag = "Ok" => Invocations(p, n) = 1
                /\ \A k \in DOMAIN p.calls :
                      p.calls[k].kind = "Action" =>
                          \A port \in TriggerFed(p, p.calls[k].node) :
                              p.calls[k].inputs[port] = Event("Attempted")
                /\ HelloWorld(p) =>
                      /\ p.outcome.tag = "Ok"
                      /\ p.graph.parameters[1] = [accept |-> Bool(TRUE)] =>
                            p.outcome.value.outputs["action_outcome"] = Event(Action("Filled"))
                      /\ p.graph.parameters[1] = [accept |-> Bool(FALSE)] =>
                            p.outcome.value.outputs["action_outcome"] = Event(Action("Rejected"))

\* a hello-world pass whose comparison was false, whose trigger produced
\* NotEmitted, and whose action was invoked and reported Filled
C25_Witness ==
    \E i \in DOMAIN passes :
        /\ Accepted(passes[i])
        /\ HelloWorld(passes[i])
        /\ passes[i].graph.parameters[1] = [accept |-> Bool(TRUE)]
        /\ Len(passes[i].calls) = 5
        /\ passes[i].calls[3].answer = Returned([result |-> Bool(FALSE)])
        /\ passes[i].calls[4].answer = Returned([event |-> Event("NotEmitted")])
        /\ passes[i].calls[5].inputs = [event |-> Event("Attempted")]
        /\ passes[i].outcome = Ok(ExecutionReport([action_outcome |-> Event(Action("Filled"))]))

\* a hello-world pass whose trigger produced Emitted and whose action, with
\* accept = false, reported Rejected
C25_EmittedRejected ==
    \E i \in DOMAIN passes :
        /\ HelloWorld(passes[i])
        /\ Len(passes[i].calls) = 5
        /\ passes[i].calls[4].answer = Returned([event |-> Event("Emitted")])
        /\ passes[i].outcome = Ok(ExecutionReport([action_outcome |-> Event(Action("Rejected"))]))

\* a pass over an accepted graph that ended before its action was invoked
C25_ActionNotReached ==
    \E i \in DOMAIN passes :
        /\ Accepted(passes[i])
        /\ \E n \in ActionNodes(passes[i]) : Invocations(passes[i], n) = 0

\* the calls of Trigger nodes in a pass
TriggerCalls(p) == {k \in DOMAIN p.calls : p.calls[k].kind = "Trigger"}

\* the state slot the caller's context holds for a node
Supplied(ctx_, n) ==
    IF n \in DOMAIN ctx_.trigger_state THEN ctx_.trigger_state[n] ELSE TriggerState_default

\* C26: trigger state is not propagated: a pass leaves the caller's context,
\* the graph and the registries as they were; the report of a pass holds the
\* outputs and nothing else; and the state slot a trigger is handed in any
\* pass is the one the caller's context supplies (the default if none),
\* whatever an earlier pass wrote into its working copy.
C26_TriggerStateNotPropagated ==
    /\ [](\A i \in DOMAIN passes :
            /\ passes[i].ctx = ctx
            /\ passes[i].graph = graph
            /\ passes[i].registries = registries
            /\ passes[i].outcome.tag = "Ok" => DOMAIN passes[i].outcome.value = {"outputs"}
            /\ \A k \in TriggerCalls(passes[i]) :
                  passes[i].calls[k].state = Some(Supplied(ctx, passes[i].calls[k].node)))
    /\ [][ctx' = ctx /\ graph' = graph /\ registries' = registries]_vars

\* two passes with a trigger that writes the slot `seen`: the first pass wrote
\* it into its working copy, the caller's context does not hold it, and the
\* second pass handed the trigger the default state again
C26_Witness ==
    /\ Len(passes) = 2
    /\ ctx = ExecutionContext(<<>>)
    /\ 2 \in DOMAIN passes[1].trigger_state
    /\ "seen" \in DOMAIN passes[1].trigger_state[2].data
    /\ \E k \in TriggerCalls(passes[2]) : passes[2].calls[k].state = Some(TriggerState_default)
    /\ passes[2].outcome.tag = "Ok"

\* a pass whose caller supplied the slot: the trigger saw it
C26_Supplied ==
    \E i \in DOMAIN passes :
        \E k \in TriggerCalls(passes[i]) :
            /\ passes[i].calls[k].state = Some(TriggerState([seen |-> Bool(TRUE)]))
            /\ passes[i].calls[k].answer = Returned([event |-> Event("Emitted")])
            /\ passes[i].calls[k].inputs = [input |-> Bool(FALSE)]

-----------------------------------------------------------------------------
(* Properties of the parameters of expanded nodes, checked under             *)
(* SpecParameters                                                            *)

RECURSIVE LiteralOf(_, _)
\* the literal a binding stands for, read from the node outwards: its own
\* literal, or for Exposed(p) what the binding of p on the enclosing cluster
\* node stands for, `enclosing` being the bindings of the enclosing cluster
\* nodes from the innermost out; None if the chain ends unbound
LiteralOf(binding, enclosing) ==
    IF binding.tag = "Literal" THEN Some(binding.value)
    ELSE IF enclosing = <<>> THEN None
    ELSE IF binding.parent_param \notin DOMAIN Head(enclosing) THEN None
    ELSE LiteralOf(Head(enclosing)[binding.parent_param], Tail(enclosing))

\* the parameters that the bindings of an Impl node stand for
Exposure(bindings, enclosing) ==
    [k \in {name \in DOMAIN bindings : is_some(LiteralOf(bindings[name], enclosing))} |->
        unwrap(LiteralOf(bindings[k], enclosing))]

\* the bindings of the nodes of the family, by their place
BindingsOfA == unwrap(root).nodes["a"].parameter_bindings

BindingsOfC == unwrap(root).nodes["c"].parameter_bindings

BindingsOfD == loader["N"].nodes["d"].parameter_bindings

BindingsOfM == loader["N"].nodes["m"].parameter_bindings

BindingsOfE == loader["M"].nodes["e"].parameter_bindings

\* the parameters claimed for the expanded node of an implementation
Claimed(impl_id) ==
    CASE impl_id = "src" -> Exposure(BindingsOfA, <<>>)
      [] impl_id = "cmp" -> Exposure(BindingsOfD, <<BindingsOfC>>)
      [] impl_id = "trg" -> Exposure(BindingsOfE, <<BindingsOfM, BindingsOfC>>)

\* C28: parameter exposure: after expand the `parameters` of an expanded
\* node hold k exactly if the binding of k on its Impl node is a Literal, or
\* is Exposed(p) with p bound to a Literal on the enclosing cluster node,
\* directly or through Exposed bindings of the levels above, and the value is
\* that literal; an Exposed binding no ancestor binds literally gives no
\* entry, the declared default of a cluster parameter is never put in, and
\* the definitions of the loader (and the root) are as they were.
C28_ParameterExposure ==
    /\ [](is_some(result) =>
            /\ unwrap(result).tag = "Ok"
            /\ \A runtime_id \in DOMAIN unwrap(result).value.nodes :
                  unwrap(result).value.parameters[runtime_id] = Claimed(unwrap(result).value.nodes[runtime_id]))
    /\ [][loader' = loader /\ root' = root]_vars

\* e binds k to q of M, m binds q to p of N, c binds p to the literal 2: the
\* expanded node of e has k = 2, through two levels
C28_Witness ==
    /\ is_some(result)
    /\ BindingsOfE = [k |-> Exposed("q")]
    /\ BindingsOfM = [q |-> Exposed("p")]
    /\ BindingsOfC = [p |-> Literal(Number(2))]
    /\ \E runtime_id \in DOMAIN unwrap(result).value.nodes :
          /\ unwrap(result).value.nodes[runtime_id] = "trg"
          /\ unwrap(result).value.parameters[runtime_id] = [k |-> Number(2)]

\* d binds k to p, which c does not bind and N declares with the default 9:
\* the expanded node of d has no parameter
C28_DefaultNotSubstituted ==
    /\ is_some(result)
    /\ BindingsOfD = [k |-> Exposed("p")]
    /\ BindingsOfC = <<>>
    /\ loader["N"].parameters = <<ParameterSpec("p", "Number", Some(Number(9)), FALSE)>>
    /\ \E runtime_id \in DOMAIN unwrap(result).value.nodes :
          /\ unwrap(result).value.nodes[runtime_id] = "cmp"
          /\ unwrap(result).value.parameters[runtime_id] = <<>>

-----------------------------------------------------------------------------
(* Properties of expand over loaders with cycles, checked under SpecCycle *)

\* the cluster ids that the Cluster nodes of a definition refer to
Refers(cluster_def) ==
    {cluster_def.nodes[n].kind.cluster_id :
        n \in {x \in DOMAIN cluster_def.nodes : cluster_def.nodes[x].kind.tag = "Cluster"}}

\* the root refers to a cluster of the loader that refers, itself or through
\* the other cluster, back to itself
RootReachesCycle ==
    \E id \in Refers(unwrap(root)) \cap DOMAIN loader :
        \/ id \in Refers(loader[id])
        \/ \E other \in Refers(loader[id]) \cap DOMAIN loader :
              other \in Refers(loader[other]) \/ id \in Refers(loader[other])

\* C27: expansion terminates: for every root and loader, cyclic loaders
\* included, the call of expand comes to an end (with an ExpandedGraph or an
\* ExpandError, or by the panic of its debug assertion) and never recurses
\* without end.
C27_ExpansionTerminates ==
    is_some(result) => unwrap(result) # StackOverflow

\* expand of a root whose cluster A contains a Cluster node that refers to A
\* recursed without end
C27_SelfReference ==
    /\ is_some(result)
    /\ unwrap(result) = StackOverflow
    /\ unwrap(root).nodes["c"].kind = Cluster("A")
    /\ "A" \in Refers(loader["A"])

\* expand of a root whose cluster A refers to B, which refers back to A,
\* recursed without end
C27_MutualReference ==
    /\ is_some(result)
    /\ unwrap(result) = StackOverflow
    /\ unwrap(root).nodes["c"].kind = Cluster("A")
    /\ Refers(loader["A"]) = {"B"}
    /\ Refers(loader["B"]) = {"A"}

\* without a cycle in reach of the root expand returns
C27_AcyclicReturns ==
    is_some(result) /\ ~RootReachesCycle => unwrap(result).tag \in {"Ok", "Err", "Panic"}

\* with a cycle in reach of the root no expansion returns a graph
C27_CycleNeverExpands ==
    is_some(result) /\ RootReachesCycle => unwrap(result).tag # "Ok"

-----------------------------------------------------------------------------
(* Properties of the endpoints of a cluster's own edges, checked under       *)
(* SpecSharedIds                                                             *)

\* the runtime id of the expanded node of an implementation (each
\* implementation of the family has one node)
RuntimeIdOf(impl_id) ==
    CHOOSE runtime_id \in DOMAIN unwrap(result).value.nodes :
        unwrap(result).value.nodes[runtime_id] = impl_id

\* the Impl nodes of the root, with their implementations
RootImpls ==
    [n \in {x \in DOMAIN unwrap(root).nodes : unwrap(root).nodes[x].kind.tag = "Impl"} |->
        unwrap(root).nodes[n].kind.impl_id]

\* the source of an edge of the root as the rule of resolution gives it: the
\* root's own Impl node, the node behind the declared port of the root's
\* Cluster node, or else the external input keyed on the id
SourceWithinRoot(from) ==
    IF from.node_id \in DOMAIN RootImpls
    THEN NodePort(RuntimeIdOf(RootImpls[from.node_id]), from.port_name)
    ELSE IF from.node_id = "c" /\ from.port_name = "out"
    THEN NodePort(RuntimeIdOf("trg"), "out")
    ELSE ExternalInput(external_key(<<>>, "R", from.node_id))

EndsInB(edge) == edge.to = NodePort(RuntimeIdOf("act"), "in")

\* the edges of the expanded graph that end in the root's node b: those of
\* the root, in their order
EdgesOfRoot == SelectSeq(unwrap(result).value.edges, EndsInB)

\* C29: edge endpoints stay inside their cluster: the edges and the boundary
\* outputs of the root resolve a node id to an Impl node of the root, to the
\* declared port of a Cluster node of the root, or to no node; an Impl node
\* inside the nested cluster is never taken for it, whatever the iteration
\* order.
C29_EndpointsStayInside ==
    is_some(result) /\ unwrap(result).tag = "Ok" =>
        /\ EdgesOfRoot = [i \in DOMAIN unwrap(root).edges |->
                             ExpandedEdge(SourceWithinRoot(unwrap(root).edges[i].from),
                                          NodePort(RuntimeIdOf("act"), "in"))]
        /\ \A i \in DOMAIN unwrap(root).output_ports :
              unwrap(result).value.boundary_outputs[i].maps_to.node_id =
                  IF unwrap(root).output_ports[i].maps_to.node_id \in DOMAIN RootImpls
                  THEN RuntimeIdOf(RootImpls[unwrap(root).output_ports[i].maps_to.node_id])
                  ELSE unwrap(root).output_ports[i].maps_to.node_id

\* the ids of the nodes of the nested cluster
NestedIds == DOMAIN loader["N"].nodes

\* the ids the root uses: its nodes, the ends of its edges, its output ports
IdsOfRoot ==
    DOMAIN unwrap(root).nodes
    \cup {unwrap(root).edges[i].from.node_id : i \in DOMAIN unwrap(root).edges}
    \cup {unwrap(root).output_ports[i].maps_to.node_id : i \in DOMAIN unwrap(root).output_ports}

\* with no id shared between the root and the nested cluster the endpoints
\* are those of the rule
C29_DisjointIds ==
    NestedIds \cap IdsOfRoot = {} => C29_EndpointsStayInside

\* an edge of the root from d, which only the nested cluster has, starts at the
\* nested node
C29_NestedNodeCaptured ==
    /\ is_some(result) /\ unwrap(result).tag = "Ok"
    /\ unwrap(root).edges = <<Edge(OutputRef("d", "out"), InputRef("b", "in"))>>
    /\ "d" \in NestedIds
    /\ EdgesOfRoot = <<ExpandedEdge(NodePort(RuntimeIdOf("cmp"), "out"),
                                    NodePort(RuntimeIdOf("act"), "in"))>>

\* an edge of the root from its own node a starts at the nested node a
C29_OwnNodeShadowed ==
    /\ is_some(result) /\ unwrap(result).tag = "Ok"
    /\ unwrap(root).edges = <<Edge(OutputRef("a", "out"), InputRef("b", "in"))>>
    /\ "a" \in NestedIds
    /\ EdgesOfRoot = <<ExpandedEdge(NodePort(RuntimeIdOf("cmp"), "out"),
                                    NodePort(RuntimeIdOf("act"), "in"))>>

\* the same root and loader under another iteration order: the edge starts at
\* the root's own node
C29_OwnNodeKept ==
    /\ is_some(result) /\ unwrap(result).tag = "Ok"
    /\ unwrap(root).edges = <<Edge(OutputRef("a", "out"), InputRef("b", "in"))>>
    /\ "a" \in NestedIds
    /\ EdgesOfRoot = <<ExpandedEdge(NodePort(RuntimeIdOf("src"), "out"),
                                    NodePort(RuntimeIdOf("act"), "in"))>>

\* an output port of the root that names d maps to the nested node
C29_BoundaryCaptured ==
    /\ is_some(result) /\ unwrap(result).tag = "Ok"
    /\ unwrap(root).output_ports = <<OutputPortSpec("o", OutputRef("d", "out"))>>
    /\ unwrap(result).value.boundary_outputs =
           <<OutputPortSpec("o", OutputRef(RuntimeIdOf("cmp"), "out"))>>

====
